---- MODULE Spec2Model ----
(***************************************************************************)
(* pdfz: the page cache (page_cache.py), the retrieval tools               *)
(* (mcp_server.py), the document store (store.py) and ingestion            *)
(* (ingest.py), as state machines.                                         *)
(*                                                                         *)
(* A tool call is a coroutine on one event loop: it runs without           *)
(* interruption from one await to the next, so every action below is the   *)
(* code between two suspension points (the PDF download, the model call).  *)
(***************************************************************************)
EXTENDS Integers, Sequences, FiniteSets, TLC

VARIABLES
    store,      \* documents.json: the sequence of stored document records
    cache,      \* page_cache._cache: (doc_id, page_num) -> content
    calls,      \* the tool calls in flight, one record per caller
    cacheRet,   \* what the last page_cache operation returned
    ingests,    \* the ingest_pdf coroutines in flight
    nextId,     \* number of document ids handed out so far (uuid4 is fresh)
    vreq,       \* the request handed to the validation of a tool
    vres,       \* the validation's answer
    scan,       \* find_pages after its download: the locals of its page scan
    slice,      \* extract_page_range applied to a PDF: arguments and result
    evals,      \* eval_runner: _current_run, the results file, the runs
    stale,      \* history: the cached keys written by an extraction that
                \* was begun before the latest invalidate of the key
    auth        \* server.py behind _require_auth: the browser's session
                \* cookie, the magic links mailed, the responses in flight

vars == <<store, cache, calls, cacheRet, ingests, nextId, vreq, vres, scan, slice, evals, stale, auth>>

----------------------------------------------------------------------------
(* Bounds and the small input sets.                                        *)

\* Largest page number a tool call asks for, apart from FarPage.
MaxPage == 2

\* The callers whose tool calls may be in flight at the same time.
Callers == {"a", "b"}

\* Markdown the extraction agent may answer with; "" is a legal str.
Contents == {"", "x"}

\* `total_pages: int | None`: None is modelled as -1.
None == -1

\* Python's None where a str is expected (page_cache.get's miss, the
\* doc_id of invalidate()): distinct from every str of the model.
NoneStr == "<None>"

\* The span limit of extract_page_content and extract_with_focus.
MAX_SPAN == 9

Max(a, b) == IF a >= b THEN a ELSE b

Min(a, b) == IF a <= b THEN a ELSE b

----------------------------------------------------------------------------
(* page_cache.py                                                           *)

EmptyCache == [k \in {} |-> ""]

CacheGetIgnoresPage(c, doc_id, page_num) ==
    IF \E k \in DOMAIN c : k[1] = doc_id
    THEN c[CHOOSE k \in DOMAIN c : k[1] = doc_id]
    ELSE NoneStr

CacheGet(c, doc_id, page_num) ==
    IF <<doc_id, page_num>> \in DOMAIN c THEN c[<<doc_id, page_num>>] ELSE NoneStr

CachePutClobber(c, doc_id, page_num, content) ==
    [k \in {<<doc_id, page_num>>} |-> content]

CachePutOtherKeys(c, doc_id, page_num, content) ==
    [k \in DOMAIN c \cup {<<doc_id, page_num>>} |->
        IF k[1] = doc_id THEN content ELSE c[k]]

CachePutKeepsFirst(c, doc_id, page_num, content) ==
    [k \in DOMAIN c \cup {<<doc_id, page_num>>} |->
        IF k \in DOMAIN c THEN c[k] ELSE content]

CachePut(c, doc_id, page_num, content) ==
    [k \in DOMAIN c \cup {<<doc_id, page_num>>} |->
        IF k = <<doc_id, page_num>> THEN content ELSE c[k]]

CacheSize(c) == Cardinality(DOMAIN c)

CacheInvalidateClearsAll(c, doc_id) ==
    [cache |-> EmptyCache, ret |-> Cardinality(DOMAIN c)]

CacheInvalidateCountsAfter(c, doc_id) ==
    IF doc_id = NoneStr
    THEN [cache |-> EmptyCache, ret |-> Cardinality(DOMAIN EmptyCache)]
    ELSE LET keys == {k \in DOMAIN c : k[1] = doc_id}
         IN  [cache |-> [k \in DOMAIN c \ keys |-> c[k]],
              ret |-> Cardinality(keys)]

\* invalidate: with None, rebinds _cache to {} and returns the old length;
\* with a doc_id, deletes the keys whose first component is doc_id and
\* returns how many they were.
CacheInvalidate(c, doc_id) ==
    IF doc_id = NoneStr
    THEN [cache |-> EmptyCache, ret |-> Cardinality(DOMAIN c)]
    ELSE LET keys == {k \in DOMAIN c : k[1] = doc_id}
         IN  [cache |-> [k \in DOMAIN c \ keys |-> c[k]],
              ret |-> Cardinality(keys)]

----------------------------------------------------------------------------
(* store.py                                                                *)

\* DocumentStore.get: the first record with that id, or no record.
StoreHas(s, document_id) == \E i \in 1..Len(s) : s[i].id = document_id

StoreGet(s, document_id) ==
    s[CHOOSE i \in 1..Len(s) :
        /\ s[i].id = document_id
        /\ \A j \in 1..(i - 1) : s[j].id # document_id]

\* DocumentStore.find_by_hash: the first record with that hash.
StoreHasHash(s, h) == \E i \in 1..Len(s) : s[i].content_hash = h

FindByHashAnyDoc(s, h) == s[1]

FindByHash(s, h) ==
    s[CHOOSE i \in 1..Len(s) :
        /\ s[i].content_hash = h
        /\ \A j \in 1..(i - 1) : s[j].content_hash # h]

StoreAddPrepends(s, doc) == <<doc>> \o s

\* DocumentStore.add: load, append, save.
StoreAdd(s, doc) == Append(s, doc)

----------------------------------------------------------------------------
(* mcp_server.py: validation of extract_page_content / extract_with_focus  *)

NoMsg == [m |-> "", doc |-> "", n |-> 0]

NotFoundMsg(document_id) == [m |-> "Document not found.", doc |-> document_id, n |-> 0]

SpanMsg == [m |-> "Please limit page range to 10 pages at a time.", doc |-> "", n |-> 0]

StartMsg == [m |-> "page_start must be >= 1.", doc |-> "", n |-> 0]

TotalMsg(total) == [m |-> "Document only has pages.", doc |-> "", n |-> total]

\* Python truthiness of `doc.total_pages`: None and 0 are falsy.
TruthyInt(n) == n # None /\ n # 0

\* Python truthiness of `cached`: None and "" are falsy.
TruthyStr(x) == x # NoneStr /\ x # ""

ExtractValidationStartFirst(s, document_id, page_start, page_end) ==
    IF ~StoreHas(s, document_id) THEN NotFoundMsg(document_id)
    ELSE LET doc == StoreGet(s, document_id) IN
         IF page_start < 1 THEN StartMsg
         ELSE IF page_end - page_start > MAX_SPAN THEN SpanMsg
         ELSE IF TruthyInt(doc.total_pages) /\ page_end > doc.total_pages
              THEN TotalMsg(doc.total_pages)
         ELSE NoMsg

ExtractValidation(s, document_id, page_start, page_end) ==
    IF ~StoreHas(s, document_id) THEN NotFoundMsg(document_id)
    ELSE LET doc == StoreGet(s, document_id) IN
         IF page_end - page_start > MAX_SPAN THEN SpanMsg
         ELSE IF page_start < 1 THEN StartMsg
         ELSE IF TruthyInt(doc.total_pages) /\ page_end > doc.total_pages
              THEN TotalMsg(doc.total_pages)
         ELSE NoMsg

----------------------------------------------------------------------------
(* pdf_utils.py: a PDF is the sequence of its pages' texts.                *)

\* get_total_pages: len(reader.pages).
GetTotalPages(pdf_bytes) == Len(pdf_bytes)

ExtractPageRangeZeroBased(pdf_bytes, start, end) ==
    LET start_idx == Max(0, start)
        end_idx   == Min(Len(pdf_bytes), end)
    IN  [i \in 1..Max(0, end_idx - start_idx) |-> pdf_bytes[start_idx + i]]

\* extract_page_range: pages start_idx .. end_idx - 1 of the reader (0-based).
ExtractPageRange(pdf_bytes, start, end) ==
    LET start_idx == Max(0, start - 1)
        end_idx   == Min(Len(pdf_bytes), end)
    IN  [i \in 1..Max(0, end_idx - start_idx) |-> pdf_bytes[start_idx + i]]

----------------------------------------------------------------------------
(* The documents and PDFs of the model.                                    *)

\* The text of page i of a PDF: a sequence of characters.
PageText(i) == IF i % 2 = 1 THEN <<"A", "b", " ", "a">> ELSE <<"b", "a", "B">>

\* What download_pdf(url) returns: "u1" serves a PDF of MaxPage pages, "u1m"
\* is a mirror serving the same bytes, "u0" serves a PDF without pages.
PdfAt(url) ==
    IF url = "u0" THEN <<>> ELSE [i \in 1..MaxPage |-> PageText(i)]

Urls == {"u1", "u1m", "u0"}

\* hashlib.sha256(pdf_bytes).hexdigest(): equal exactly for equal bytes.
Sha256(pdf_bytes) == IF pdf_bytes = <<>> THEN "h0" ELSE "h1"

\* A PDFDocument record.
Doc(id, url, total_pages, toc) ==
    [id |-> id, content_hash |-> Sha256(PdfAt(url)), source_url |-> url,
     total_pages |-> total_pages, toc |-> toc]

\* The store the retrieval tools run against: the PDF at "u1", ingested.
ToolStore ==
    <<Doc("d1", "u1", GetTotalPages(PdfAt("u1")), "toc")>>

----------------------------------------------------------------------------
(* The tool calls of mcp_server.py.                                        *)

\* The history in `stale` is kept by the specification that reads it and
\* is switched off, at this value, in the others.
NoHistory == {<<NoneStr, 0>>}

Idle ==
    [kind |-> "none", pc |-> "idle", doc |-> "", ps |-> 0, pe |-> 0,
     page |-> 0, parts |-> <<>>, msg |-> NoMsg, out |-> <<>>,
     query |-> <<>>, found |-> <<>>,
     downloads |-> 0, runs |-> <<>>, inval |-> FALSE, old |-> FALSE]

\* f"## Page {page_num}\n\n{content}"
Block(page_num, content) == [tok |-> "## Page", page |-> page_num, text |-> content]

\* The "\n\n---\n\n" between two blocks.
Rule == [tok |-> "---", page |-> 0, text |-> ""]

\* sep.join(parts)
RECURSIVE Join(_, _)
Join(sep, parts) ==
    IF Len(parts) <= 1 THEN parts
    ELSE <<Head(parts), sep>> \o Join(sep, Tail(parts))

InFlight(c) == calls[c].pc \in {"download", "llm"}

\* A call that has returned or raised stays on record for one state, the
\* moment of its return, and CallOver then clears the record: no other step
\* is taken in between, so the record is read against the state it
\* returned in.
NoAnswerPending == \A c \in Callers : calls[c].pc \in {"idle", "download", "llm"}

RECURSIVE RunLoopPrepends(_, _, _, _, _)
RunLoopPrepends(c, document_id, page_num, page_end, parts) ==
    IF page_num > page_end
    THEN [pc |-> "returned", page |-> page_num, parts |-> parts]
    ELSE LET cached == CacheGet(c, document_id, page_num) IN
         IF TruthyStr(cached)
         THEN RunLoopPrepends(c, document_id, page_num + 1, page_end,
                              <<Block(page_num, cached)>> \o parts)
         ELSE [pc |-> "llm", page |-> page_num, parts |-> parts]

\* The for loop of extract_page_content from page_num on, up to its next
\* await: cache hits are appended without suspending; the first miss stops
\* at the agent's run; past page_end the function returns.
RECURSIVE RunLoop(_, _, _, _, _)
RunLoop(c, document_id, page_num, page_end, parts) ==
    IF page_num > page_end
    THEN [pc |-> "returned", page |-> page_num, parts |-> parts]
    ELSE LET cached == CacheGet(c, document_id, page_num) IN
         IF TruthyStr(cached)
         THEN RunLoop(c, document_id, page_num + 1, page_end,
                      Append(parts, Block(page_num, cached)))
         ELSE [pc |-> "llm", page |-> page_num, parts |-> parts]

\* What a call's record becomes when the loop has run to its next stop.
AfterLoop(call, stop) ==
    IF stop.pc = "returned"
    THEN [call EXCEPT !.pc = "returned", !.page = stop.page, !.parts = stop.parts,
                      !.out = Join(Rule, stop.parts)]
    ELSE [call EXCEPT !.pc = "llm", !.page = stop.page, !.parts = stop.parts,
                      !.runs = Append(@, <<stop.page, stop.page>>),
                      !.old = FALSE]

ExtractStartDownloadFirst(c, document_id, page_start, page_end) ==
    /\ NoAnswerPending
    /\ calls[c].pc = "idle"
    /\ LET msg == ExtractValidation(store, document_id, page_start, page_end)
           call == [Idle EXCEPT !.kind = "extract", !.doc = document_id,
                                !.ps = page_start, !.pe = page_end,
                                !.downloads = 1]
       IN  calls' = [calls EXCEPT ![c] =
                IF msg # NoMsg
                THEN [call EXCEPT !.pc = "returned", !.msg = msg]
                ELSE [call EXCEPT !.pc = "download"]]
    /\ UNCHANGED <<store, cache, cacheRet, ingests, nextId, vreq, vres, scan, slice, evals, stale, auth>>

\* extract_page_content up to `await download_pdf`: lookup and validation.
ExtractStart(c, document_id, page_start, page_end) ==
    /\ NoAnswerPending
    /\ calls[c].pc = "idle"
    /\ LET msg == ExtractValidation(store, document_id, page_start, page_end)
           call == [Idle EXCEPT !.kind = "extract", !.doc = document_id,
                                !.ps = page_start, !.pe = page_end]
       IN  calls' = [calls EXCEPT ![c] =
                IF msg # NoMsg
                THEN [call EXCEPT !.pc = "returned", !.msg = msg]
                ELSE [call EXCEPT !.pc = "download", !.downloads = 1]]
    /\ UNCHANGED <<store, cache, cacheRet, ingests, nextId, vreq, vres, scan, slice, evals, stale, auth>>

ExtractDownloadedBehindLock(c) ==
    /\ NoAnswerPending
    /\ calls[c].kind = "extract" /\ calls[c].pc = "download"
    /\ LET call == calls[c]
           stop == RunLoop(cache, call.doc, call.ps, call.pe, <<>>)
       IN  calls' = [calls EXCEPT ![c] =
                IF \E o \in Callers \ {c} :
                        /\ calls[o].kind = "extract" /\ calls[o].pc = "llm"
                        /\ calls[o].doc = call.doc
                THEN [call EXCEPT !.pc = "locked"]
                ELSE AfterLoop(call, stop)]
    /\ UNCHANGED <<store, cache, cacheRet, ingests, nextId, vreq, vres, scan, slice, evals, stale, auth>>

\* download_pdf returned: the loop runs to its first miss or to the return.
ExtractDownloaded(c) ==
    /\ NoAnswerPending
    /\ calls[c].kind = "extract" /\ calls[c].pc = "download"
    /\ LET call == calls[c]
           stop == RunLoop(cache, call.doc, call.ps, call.pe, <<>>)
       IN  calls' = [calls EXCEPT ![c] = AfterLoop(call, stop)]
    /\ UNCHANGED <<store, cache, cacheRet, ingests, nextId, vreq, vres, scan, slice, evals, stale, auth>>

ExtractPageDoneNoPut(c, output) ==
    /\ NoAnswerPending
    /\ calls[c].kind = "extract" /\ calls[c].pc = "llm"
    /\ LET call == calls[c]
           stop == RunLoop(cache, call.doc, call.page + 1, call.pe,
                           Append(call.parts, Block(call.page, output)))
       IN  calls' = [calls EXCEPT ![c] = AfterLoop(call, stop)]
    /\ UNCHANGED <<store, cache, cacheRet, ingests, nextId, vreq, vres, scan, slice, evals, stale, auth>>

\* The agent's run returned result.output for page_num: put, append, loop on.
ExtractPageDone(c, output) ==
    /\ NoAnswerPending
    /\ calls[c].kind = "extract" /\ calls[c].pc = "llm"
    /\ LET call == calls[c]
           put  == CachePut(cache, call.doc, call.page, output)
           stop == RunLoop(put, call.doc, call.page + 1, call.pe,
                           Append(call.parts, Block(call.page, output)))
       IN  /\ cache' = put
           /\ calls' = [calls EXCEPT ![c] = AfterLoop(call, stop)]
           /\ stale' = IF stale = NoHistory THEN stale
                       ELSE IF call.old THEN stale \cup {<<call.doc, call.page>>}
                       ELSE stale \ {<<call.doc, call.page>>}
    /\ UNCHANGED <<store, cacheRet, ingests, nextId, vreq, vres, scan, slice, evals, auth>>

CallRaisedCachesFailure(c) ==
    /\ NoAnswerPending
    /\ InFlight(c)
    /\ calls' = [calls EXCEPT ![c].pc = "raised"]
    /\ cache' = IF calls[c].kind = "extract" /\ calls[c].pc = "llm"
                THEN CachePut(cache, calls[c].doc, calls[c].page, "")
                ELSE cache
    /\ UNCHANGED <<store, cacheRet, ingests, nextId, vreq, vres, scan, slice, evals, stale, auth>>

CallRaisedRetries(c) ==
    /\ NoAnswerPending
    /\ InFlight(c)
    /\ LET call == calls[c]
           retried == \/ call.downloads > 1
                      \/ \E i, j \in 1..Len(call.runs) : i < j /\ call.runs[i] = call.runs[j]
       IN  calls' = [calls EXCEPT ![c] =
                IF retried THEN [call EXCEPT !.pc = "raised"]
                ELSE IF call.pc = "llm"
                     THEN [call EXCEPT !.runs = Append(@, call.runs[Len(call.runs)])]
                     ELSE [call EXCEPT !.downloads = @ + 1]]
    /\ UNCHANGED <<store, cache, cacheRet, ingests, nextId, vreq, vres, scan, slice, evals, stale, auth>>

\* download_pdf or the agent's run raised: the exception leaves the tool.
CallRaised(c) ==
    /\ NoAnswerPending
    /\ InFlight(c)
    /\ calls' = [calls EXCEPT ![c].pc = "raised"]
    /\ UNCHANGED <<store, cache, cacheRet, ingests, nextId, vreq, vres, scan, slice, evals, stale, auth>>

\* The caller has taken the answer; it may call again.
CallOver(c) ==
    /\ calls[c].pc \in {"returned", "raised"}
    /\ calls' = [calls EXCEPT ![c] = Idle]
    /\ UNCHANGED <<store, cache, cacheRet, ingests, nextId, vreq, vres, scan, slice, evals, stale, auth>>

FocusValidationSpanTen(s, document_id, page_start, page_end) ==
    IF ~StoreHas(s, document_id) THEN NotFoundMsg(document_id)
    ELSE LET doc == StoreGet(s, document_id) IN
         IF page_end - page_start > MAX_SPAN + 1 THEN SpanMsg
         ELSE IF page_start < 1 THEN StartMsg
         ELSE IF TruthyInt(doc.total_pages) /\ page_end > doc.total_pages
              THEN TotalMsg(doc.total_pages)
         ELSE NoMsg

\* extract_with_focus up to `await download_pdf`: the same checks, inline.
FocusValidation(s, document_id, page_start, page_end) ==
    IF ~StoreHas(s, document_id) THEN NotFoundMsg(document_id)
    ELSE LET doc == StoreGet(s, document_id) IN
         IF page_end - page_start > MAX_SPAN THEN SpanMsg
         ELSE IF page_start < 1 THEN StartMsg
         ELSE IF TruthyInt(doc.total_pages) /\ page_end > doc.total_pages
              THEN TotalMsg(doc.total_pages)
         ELSE NoMsg

FocusStart(c, document_id, page_start, page_end) ==
    /\ NoAnswerPending
    /\ calls[c].pc = "idle"
    /\ LET msg == FocusValidation(store, document_id, page_start, page_end)
           call == [Idle EXCEPT !.kind = "focus", !.doc = document_id,
                                !.ps = page_start, !.pe = page_end]
       IN  calls' = [calls EXCEPT ![c] =
                IF msg # NoMsg
                THEN [call EXCEPT !.pc = "returned", !.msg = msg]
                ELSE [call EXCEPT !.pc = "download", !.downloads = 1]]
    /\ UNCHANGED <<store, cache, cacheRet, ingests, nextId, vreq, vres, scan, slice, evals, stale, auth>>

FocusDownloadedFromCache(c) ==
    /\ NoAnswerPending
    /\ calls[c].kind = "focus" /\ calls[c].pc = "download"
    /\ LET call == calls[c]
           stop == RunLoop(cache, call.doc, call.ps, call.pe, <<>>)
       IN  calls' = [calls EXCEPT ![c] =
                IF stop.pc = "returned"
                THEN [call EXCEPT !.pc = "returned", !.out = Join(Rule, stop.parts)]
                ELSE [call EXCEPT !.pc = "llm",
                                  !.runs = Append(@, <<call.ps, call.pe>>)]]
    /\ UNCHANGED <<store, cache, cacheRet, ingests, nextId, vreq, vres, scan, slice, evals, stale, auth>>

\* download_pdf returned: slice the range, hand it to the agent in one run.
FocusDownloaded(c) ==
    /\ NoAnswerPending
    /\ calls[c].kind = "focus" /\ calls[c].pc = "download"
    /\ calls' = [calls EXCEPT ![c].pc = "llm",
                              ![c].runs = Append(@, <<calls[c].ps, calls[c].pe>>)]
    /\ UNCHANGED <<store, cache, cacheRet, ingests, nextId, vreq, vres, scan, slice, evals, stale, auth>>

\* The agent's run returned: result.output is the answer, as it is.
FocusDone(c, output) ==
    /\ NoAnswerPending
    /\ calls[c].kind = "focus" /\ calls[c].pc = "llm"
    /\ calls' = [calls EXCEPT ![c].pc = "returned",
                              ![c].out = <<[tok |-> "", page |-> 0, text |-> output]>>]
    /\ UNCHANGED <<store, cache, cacheRet, ingests, nextId, vreq, vres, scan, slice, evals, stale, auth>>

\* The characters of the model: Latin letters in both cases, the space,
\* "I_dot" for U+0130 (capital I with dot above) with "_dot" for the
\* combining dot above, and the Greek capital "Sigma" with its two small
\* forms "sigma" and "final_sigma".
CasedLetters == {"A", "a", "B", "b", "c", "i", "I_dot", "Sigma", "sigma", "final_sigma"}

CaseIgnorable == {"_dot"}

\* str.lower() on one character by itself.  "I_dot" is the one character
\* whose lower() is two characters long: "i" and the combining dot.
LowerChar(ch) ==
    IF ch = "A" THEN <<"a">>
    ELSE IF ch = "B" THEN <<"b">>
    ELSE IF ch = "I_dot" THEN <<"i", "_dot">>
    ELSE IF ch = "Sigma" THEN <<"sigma">>
    ELSE <<ch>>

\* str.lower() gives a capital sigma its final form when a cased letter
\* stands before it and none after it, case-ignorable characters skipped.
FinalSigma(text, i) ==
    /\ \E j \in 1..(i - 1) :
          /\ text[j] \in CasedLetters
          /\ \A k \in (j + 1)..(i - 1) : text[k] \in CaseIgnorable
    /\ ~\E j \in (i + 1)..Len(text) :
          /\ text[j] \in CasedLetters
          /\ \A k \in (i + 1)..(j - 1) : text[k] \in CaseIgnorable

\* The lower() of the characters lo..hi of text, in order, each in its
\* place in text (the range is split in halves to keep the recursion
\* shallow).
RECURSIVE LowerRange(_, _, _)
LowerRange(text, lo, hi) ==
    IF lo > hi THEN <<>>
    ELSE IF lo = hi
         THEN (IF text[lo] = "Sigma" /\ FinalSigma(text, lo) THEN <<"final_sigma">>
               ELSE LowerChar(text[lo]))
    ELSE LET mid == (lo + hi) \div 2
         IN  LowerRange(text, lo, mid) \o LowerRange(text, mid + 1, hi)

\* str.lower()
Lower(text) == LowerRange(text, 1, Len(text))

\* text[pos : pos + len(sub)] == sub, pos counted from 0.
MatchAt(text, sub, pos) ==
    /\ pos + Len(sub) <= Len(text)
    /\ \A j \in 1..Len(sub) : text[pos + j] = sub[j]

\* str.find(sub, idx): the lowest match position >= idx, or -1.
StrFind(text, sub, idx) ==
    LET hits == {pos \in idx..Len(text) : MatchAt(text, sub, pos)}
    IN  IF hits = {} THEN -1 ELSE CHOOSE pos \in hits : \A q \in hits : pos <= q

\* str.count(sub): non-overlapping matches; len(text) + 1 for an empty sub.
RECURSIVE CountFrom(_, _, _)
CountFrom(text, sub, idx) ==
    LET pos == StrFind(text, sub, idx)
    IN  IF pos = -1 THEN 0 ELSE 1 + CountFrom(text, sub, pos + Len(sub))

StrCount(text, sub) ==
    IF Len(sub) = 0 THEN Len(text) + 1 ELSE CountFrom(text, sub, 0)

\* text[start:end], both counted from 0.
Slice(text, start, end) == [i \in 1..Max(0, end - start) |-> text[start + i]]

\* " ".join(s.split()): the words of s with one space between them.  A
\* character stays if it is no whitespace, or if it is the first space after
\* a word that has another word somewhere behind it.
CollapseKeeps(s, i) ==
    \/ s[i] # " "
    \/ /\ i > 1 /\ s[i - 1] # " "
       /\ \E j \in (i + 1)..Len(s) : s[j] # " "

\* The characters of s[lo..hi] that stay, in order (split in halves).
RECURSIVE CollapseRange(_, _, _)
CollapseRange(s, lo, hi) ==
    IF lo > hi THEN <<>>
    ELSE IF lo = hi THEN (IF CollapseKeeps(s, lo) THEN <<s[lo]>> ELSE <<>>)
    ELSE LET mid == (lo + hi) \div 2
         IN  CollapseRange(s, lo, mid) \o CollapseRange(s, mid + 1, hi)

Collapse(s) == CollapseRange(s, 1, Len(s))

\* The width of a snippet's context on each side of a match.
SNIPPET_CONTEXT == 60

\* The most snippets collected per page.
MAX_SNIPPETS == 3

\* The while loop of find_pages that collects a page's snippets.
RECURSIVE Snippets(_, _, _, _, _)
Snippets(text, text_lower, query, idx, snippets) ==
    IF Len(snippets) >= MAX_SNIPPETS THEN snippets
    ELSE LET pos == StrFind(text_lower, Lower(query), idx) IN
         IF pos = -1 THEN snippets
         ELSE LET start == Max(0, pos - SNIPPET_CONTEXT)
                  end   == Min(Len(text), pos + Len(query) + SNIPPET_CONTEXT)
              IN  Snippets(text, text_lower, query, pos + 1,
                           Append(snippets, Collapse(Slice(text, start, end))))

\* The for loop of find_pages over reader.pages from page_num on.
RECURSIVE SearchPages(_, _, _)
SearchPages(pdf_bytes, query, page_num) ==
    IF page_num > Len(pdf_bytes) THEN <<>>
    ELSE LET text == pdf_bytes[page_num]
             text_lower == Lower(text)
             rest == SearchPages(pdf_bytes, query, page_num + 1)
         IN  IF StrFind(text_lower, Lower(query), 0) = -1 THEN rest
             ELSE <<[page |-> page_num,
                     count |-> StrCount(text_lower, Lower(query)),
                     snippets |-> Snippets(text, text_lower, query, 0, <<>>)]>>
                  \o rest

NoPagesMsg == [m |-> "No pages found containing", doc |-> "", n |-> 0]

FoundMsg(n) == [m |-> "Found on pages:", doc |-> "", n |-> n]

\* find_pages up to `await download_pdf`.
FindStart(c, document_id, query) ==
    /\ NoAnswerPending
    /\ calls[c].pc = "idle"
    /\ LET call == [Idle EXCEPT !.kind = "find", !.doc = document_id,
                                !.query = query]
       IN  calls' = [calls EXCEPT ![c] =
                IF ~StoreHas(store, document_id)
                THEN [call EXCEPT !.pc = "returned", !.msg = NotFoundMsg(document_id)]
                ELSE [call EXCEPT !.pc = "download", !.downloads = 1]]
    /\ UNCHANGED <<store, cache, cacheRet, ingests, nextId, vreq, vres, scan, slice, evals, stale, auth>>

\* download_pdf returned: scan every page, answer.
FindDownloaded(c) ==
    /\ NoAnswerPending
    /\ calls[c].kind = "find" /\ calls[c].pc = "download"
    /\ LET doc == StoreGet(store, calls[c].doc)
           results == SearchPages(PdfAt(doc.source_url), calls[c].query, 1)
       IN  calls' = [calls EXCEPT ![c].pc = "returned",
                                  ![c].found = results,
                                  ![c].msg = IF results = <<>> THEN NoPagesMsg
                                             ELSE FoundMsg(Len(results))]
    /\ UNCHANGED <<store, cache, cacheRet, ingests, nextId, vreq, vres, scan, slice, evals, stale, auth>>

NoDocumentsMsg == [m |-> "No documents have been ingested yet.", doc |-> "", n |-> 0]

\* list_documents: one entry per stored document, in store order.
ListDocuments(c) ==
    /\ NoAnswerPending
    /\ calls[c].pc = "idle"
    /\ LET docs == store
           call == [Idle EXCEPT !.kind = "list", !.pc = "returned"]
       IN  calls' = [calls EXCEPT ![c] =
                IF docs = <<>> THEN [call EXCEPT !.msg = NoDocumentsMsg]
                ELSE [call EXCEPT !.out =
                        [i \in 1..Len(docs) |->
                            [tok |-> "-", page |-> docs[i].total_pages,
                             text |-> docs[i].id]]]]
    /\ UNCHANGED <<store, cache, cacheRet, ingests, nextId, vreq, vres, scan, slice, evals, stale, auth>>

NoTocMsg(document_id) ==
    [m |-> "No table of contents available.", doc |-> document_id, n |-> 0]

\* get_document_toc
GetDocumentToc(c, document_id) ==
    /\ NoAnswerPending
    /\ calls[c].pc = "idle"
    /\ LET call == [Idle EXCEPT !.kind = "toc", !.pc = "returned",
                                !.doc = document_id]
       IN  calls' = [calls EXCEPT ![c] =
                IF ~StoreHas(store, document_id)
                THEN [call EXCEPT !.msg = NotFoundMsg(document_id)]
                ELSE LET doc == StoreGet(store, document_id) IN
                     IF doc.toc = ""
                     THEN [call EXCEPT !.msg = NoTocMsg(document_id)]
                     ELSE [call EXCEPT !.out =
                            <<[tok |-> "# Table of Contents", page |-> 0,
                               text |-> doc.toc]>>]]
    /\ UNCHANGED <<store, cache, cacheRet, ingests, nextId, vreq, vres, scan, slice, evals, stale, auth>>

\* page_cache.invalidate(doc_id), called from outside the tools (the cache
\* is shared with the API server for cache busting).  `inval` remembers,
\* for each extract_page_content call in flight on that document, that an
\* invalidate ran during it, and `old` that it ran while the call was
\* waiting for the agent's answer on its page in hand.
Invalidate(doc_id) ==
    /\ NoAnswerPending
    /\ cache' = CacheInvalidate(cache, doc_id).cache
    /\ calls' = [c \in Callers |->
            IF /\ calls[c].kind = "extract" /\ InFlight(c)
               /\ doc_id \in {NoneStr, calls[c].doc}
            THEN [calls[c] EXCEPT !.inval = TRUE,
                                  !.old = (stale # NoHistory /\ calls[c].pc = "llm")]
            ELSE calls[c]]
    /\ stale' = IF stale = NoHistory THEN stale
                ELSE stale \cap DOMAIN CacheInvalidate(cache, doc_id).cache
    /\ UNCHANGED <<store, cacheRet, ingests, nextId, vreq, vres, scan, slice, evals, auth>>

----------------------------------------------------------------------------
(* ingest.py: ingest_pdf, one coroutine per task.                          *)

\* Documents the store may hold before ingestion stops being started.
MaxDocs == 3

IngestTasks == {"i1", "i2"}

\* The response of the /ingest endpoint: the status code and the document id
\* its body names (document_id of IngestResponse, the id in the 409 detail).
NoResponse == [status_code |-> 0, id |-> ""]

IdleIngest == [pc |-> "idle", url |-> "", content_hash |-> "", total_pages |-> 0,
               existing |-> "", id |-> "", runs |-> 0, response |-> NoResponse]

\* uuid.uuid4().hex[:12]: the n-th id handed out, each one new.
DocIdNames == <<"d1", "d2", "d3", "d4", "d5", "d6">>

NewId(n) == DocIdNames[n]

\* What the metadata agent may answer as the table of contents.
Tocs == {"", "toc"}

\* ingest_pdf up to `await download_pdf(url)`.
IngestStart(t, url) ==
    /\ ingests[t].pc = "idle"
    /\ Len(store) + Cardinality({u \in IngestTasks : ingests[u].pc \in {"download", "llm"}})
            < MaxDocs
    /\ ingests' = [ingests EXCEPT ![t] = [IdleIngest EXCEPT !.pc = "download", !.url = url]]
    /\ UNCHANGED <<store, cache, calls, cacheRet, nextId, vreq, vres, scan, slice, evals, stale, auth>>

\* download_pdf returned: hash, duplicate check (DuplicateDocumentError
\* carries the stored document, and the /ingest endpoint answers it with a
\* 409 naming that document's id), page count, first pages, up to the await
\* of the metadata agent's run.
IngestDownloaded(t) ==
    /\ ingests[t].pc = "download"
    /\ LET pdf_bytes == PdfAt(ingests[t].url)
           content_hash == Sha256(pdf_bytes)
       IN  ingests' = [ingests EXCEPT ![t] =
                IF StoreHasHash(store, content_hash)
                THEN LET existing == FindByHash(store, content_hash) IN
                     [@ EXCEPT !.pc = "duplicate", !.content_hash = content_hash,
                               !.existing = existing.id,
                               !.response = [status_code |-> 409, id |-> existing.id]]
                ELSE [@ EXCEPT !.pc = "llm", !.content_hash = content_hash,
                               !.total_pages = GetTotalPages(pdf_bytes),
                               !.runs = 1]]
    /\ UNCHANGED <<store, cache, calls, cacheRet, nextId, vreq, vres, scan, slice, evals, stale, auth>>

\* The agent's run returned: build the PDFDocument (a new id), store.add.
IngestExtracted(t, toc) ==
    /\ ingests[t].pc = "llm"
    /\ LET doc == [id |-> NewId(nextId + 1),
                   content_hash |-> ingests[t].content_hash,
                   source_url |-> ingests[t].url,
                   total_pages |-> ingests[t].total_pages,
                   toc |-> toc]
       IN  /\ store' = StoreAdd(store, doc)
           /\ ingests' = [ingests EXCEPT ![t].pc = "done", ![t].id = doc.id,
                                         ![t].response = [status_code |-> 200, id |-> doc.id]]
    /\ nextId' = nextId + 1
    /\ UNCHANGED <<cache, calls, cacheRet, vreq, vres, scan, slice, evals, stale, auth>>

\* download_pdf or the agent's run raised: the endpoint does not catch it,
\* the framework answers 500.
IngestRaised(t) ==
    /\ ingests[t].pc \in {"download", "llm"}
    /\ ingests' = [ingests EXCEPT ![t].pc = "raised",
                                  ![t].response = [status_code |-> 500, id |-> ""]]
    /\ UNCHANGED <<store, cache, calls, cacheRet, nextId, vreq, vres, scan, slice, evals, stale, auth>>

\* The caller of ingest_pdf has its answer (the document, or the exception).
IngestOver(t) ==
    /\ ingests[t].pc \in {"done", "duplicate", "raised"}
    /\ ingests' = [ingests EXCEPT ![t] = IdleIngest]
    /\ UNCHANGED <<store, cache, calls, cacheRet, nextId, vreq, vres, scan, slice, evals, stale, auth>>

----------------------------------------------------------------------------
(* page_cache.py called directly: one action per function.                 *)

NoCacheRet == [op |-> "none", doc |-> NoneStr, page |-> 0, ret |-> 0, val |-> NoneStr]

CacheGetOp(doc_id, page_num) ==
    /\ cacheRet' = [op |-> "get", doc |-> doc_id, page |-> page_num, ret |-> 0,
                    val |-> CacheGet(cache, doc_id, page_num)]
    /\ UNCHANGED <<store, cache, calls, ingests, nextId, vreq, vres, scan, slice, evals, stale, auth>>

CachePutOp(doc_id, page_num, content) ==
    /\ cache' = CachePut(cache, doc_id, page_num, content)
    /\ cacheRet' = [op |-> "put", doc |-> doc_id, page |-> page_num, ret |-> 0,
                    val |-> NoneStr]
    /\ UNCHANGED <<store, calls, ingests, nextId, vreq, vres, scan, slice, evals, stale, auth>>

CacheInvalidateOp(doc_id) ==
    /\ cache' = CacheInvalidate(cache, doc_id).cache
    /\ cacheRet' = [op |-> "invalidate", doc |-> doc_id, page |-> 0,
                    ret |-> CacheInvalidate(cache, doc_id).ret, val |-> NoneStr]
    /\ UNCHANGED <<store, calls, ingests, nextId, vreq, vres, scan, slice, evals, stale, auth>>

CacheSizeOp ==
    /\ cacheRet' = [op |-> "size", doc |-> NoneStr, page |-> 0,
                    ret |-> CacheSize(cache), val |-> NoneStr]
    /\ UNCHANGED <<store, cache, calls, ingests, nextId, vreq, vres, scan, slice, evals, stale, auth>>

----------------------------------------------------------------------------
(* The validation of the two extraction tools, applied to a request.       *)

NoReq == [tool |-> "none", doc |-> "", ps |-> 0, pe |-> 0]

\* The request in vreq goes to extract_page_content.
ValidateExtract ==
    /\ vreq.tool = "request"
    /\ vreq' = [vreq EXCEPT !.tool = "extract"]
    /\ vres' = ExtractValidation(store, vreq.doc, vreq.ps, vreq.pe)
    /\ UNCHANGED <<store, cache, calls, cacheRet, ingests, nextId, scan, slice, evals, stale, auth>>

\* The request in vreq goes to extract_with_focus.
ValidateFocus ==
    /\ vreq.tool = "request"
    /\ vreq' = [vreq EXCEPT !.tool = "focus"]
    /\ vres' = FocusValidation(store, vreq.doc, vreq.ps, vreq.pe)
    /\ UNCHANGED <<store, cache, calls, cacheRet, ingests, nextId, scan, slice, evals, stale, auth>>

----------------------------------------------------------------------------
(* find_pages after `await download_pdf`, one loop iteration per step: the *)
(* for loop over reader.pages and, inside it, the while loop that collects *)
(* a page's snippets.                                                      *)

NoScan ==
    [pc |-> "idle", pdf |-> <<>>, query |-> <<>>, page_num |-> 0, idx |-> 0,
     snippets |-> <<>>, results |-> <<>>, msg |-> NoMsg]

\* The head of the for loop's body: the page's text, lowered, is tested for
\* the lowered query; a page without it is skipped.
ScanPage ==
    /\ scan.pc = "page" /\ scan.page_num <= Len(scan.pdf)
    /\ LET text == scan.pdf[scan.page_num]
           text_lower == Lower(text)
           query_lower == Lower(scan.query)
       IN  scan' = IF StrFind(text_lower, query_lower, 0) = -1
                   THEN [scan EXCEPT !.page_num = @ + 1]
                   ELSE [scan EXCEPT !.pc = "snippet", !.idx = 0, !.snippets = <<>>]
    /\ UNCHANGED <<store, cache, calls, cacheRet, ingests, nextId, vreq, vres, slice, evals, stale, auth>>

\* One turn of `while len(snippets) < 3`: find from idx; on a match, cut
\* text[start:end] around pos, collapse its whitespace, append, move idx to
\* pos + 1.  When the loop ends (three snippets, or no further match) the
\* page's entry, with its count, goes to results.  A snippet is kept with
\* the pos, start and end it was cut at.
SnippetStep ==
    /\ scan.pc = "snippet"
    /\ LET text == scan.pdf[scan.page_num]
           text_lower == Lower(text)
           query_lower == Lower(scan.query)
           pos == StrFind(text_lower, query_lower, scan.idx)
           start == Max(0, pos - SNIPPET_CONTEXT)
           end == Min(Len(text), pos + Len(scan.query) + SNIPPET_CONTEXT)
       IN  scan' =
             IF Len(scan.snippets) < MAX_SNIPPETS /\ pos # -1
             THEN [scan EXCEPT
                      !.snippets = Append(@, [pos |-> pos, start |-> start, end |-> end,
                                              text |-> Collapse(Slice(text, start, end))]),
                      !.idx = pos + 1]
             ELSE [scan EXCEPT
                      !.pc = "page",
                      !.results = Append(@, [page |-> scan.page_num,
                                             count |-> StrCount(text_lower, query_lower),
                                             snippets |-> scan.snippets]),
                      !.page_num = @ + 1]
    /\ UNCHANGED <<store, cache, calls, cacheRet, ingests, nextId, vreq, vres, slice, evals, stale, auth>>

ScanAnswerAlwaysFound ==
    /\ scan.pc = "page" /\ scan.page_num > Len(scan.pdf)
    /\ scan' = [scan EXCEPT !.pc = "done", !.msg = FoundMsg(Len(scan.results))]
    /\ UNCHANGED <<store, cache, calls, cacheRet, ingests, nextId, vreq, vres, slice, evals, stale, auth>>

\* After the for loop: the no-match message, or the header and the entries.
ScanAnswer ==
    /\ scan.pc = "page" /\ scan.page_num > Len(scan.pdf)
    /\ scan' = [scan EXCEPT !.pc = "done",
                            !.msg = IF scan.results = <<>> THEN NoPagesMsg
                                    ELSE FoundMsg(Len(scan.results))]
    /\ UNCHANGED <<store, cache, calls, cacheRet, ingests, nextId, vreq, vres, slice, evals, stale, auth>>

----------------------------------------------------------------------------
(* extract_page_range applied to the arguments in `slice`.                 *)

NoSlice == [pc |-> "idle", pdf |-> <<>>, start |-> 0, end |-> 0, out |-> <<>>]

SliceApply ==
    /\ slice.pc = "call"
    /\ slice' = [slice EXCEPT !.pc = "done",
                              !.out = ExtractPageRange(slice.pdf, slice.start, slice.end)]
    /\ UNCHANGED <<store, cache, calls, cacheRet, ingests, nextId, vreq, vres, scan, evals, stale, auth>>

----------------------------------------------------------------------------
(* eval_runner.py and the /api/evals endpoints of server.py.               *)

\* The most run_evals executions requested.
MaxRuns == 3

\* The executions of run_evals; the n-th one draws the run_id n.
EvalRuns == 1..MaxRuns

\* RESULTS_PATH does not exist.
NoFile == [run_id |-> None, status |-> NoneStr]

NoAnswer == [status_code |-> 0, run_id |-> None, status |-> ""]

\* _current_run is None, no dict made, no results file, no execution
\* requested.  `runs` holds the status of the dict each execution made
\* ("" before it made one), `current_run` the run_id of the dict
\* _current_run refers to, `tasks` where each execution stands.
NoEvals ==
    [current_run |-> None,
     runs |-> [t \in EvalRuns |-> ""],
     file |-> NoFile,
     tasks |-> [t \in EvalRuns |-> "idle"],
     answer |-> NoAnswer]

\* get_latest_results: the dict _current_run refers to, else the results
\* file, else None.
GetLatestResults(e) ==
    IF e.current_run # None
    THEN [run_id |-> e.current_run, status |-> e.runs[e.current_run]]
    ELSE e.file

\* POST /api/evals/run: 409 if the latest results are a run in progress,
\* else run_evals is added as a background task of this response.
RunEvalsEndpoint ==
    LET current == GetLatestResults(evals)
        idle == {t \in EvalRuns : evals.tasks[t] = "idle"}
    IN  /\ IF current # NoFile /\ current.status = "running"
           THEN evals' = [evals EXCEPT !.answer =
                            [status_code |-> 409, run_id |-> None,
                             status |-> "Eval run already in progress"]]
           ELSE /\ idle # {}
                /\ LET t == CHOOSE r \in idle : \A o \in idle : r <= o
                   IN  evals' = [evals EXCEPT
                            !.tasks[t] = "queued",
                            !.answer = [status_code |-> 200, run_id |-> None,
                                        status |-> "started"]]
        /\ UNCHANGED <<store, cache, calls, cacheRet, ingests, nextId, vreq, vres, scan, slice, stale, auth>>

\* The background task starts: run_evals up to `await dataset.evaluate`.
RunEvalsBegin(t) ==
    /\ evals.tasks[t] = "queued"
    /\ evals' = [evals EXCEPT !.current_run = t,
                              !.runs[t] = "running",
                              !.tasks[t] = "evaluate"]
    /\ UNCHANGED <<store, cache, calls, cacheRet, ingests, nextId, vreq, vres, scan, slice, stale, auth>>

\* The rest of run_evals, on the dict _current_run refers to by now: the
\* status, the results file, _current_run = None.  With _current_run None
\* the subscription raises TypeError, in the try block and again in the
\* except block, and the execution ends with it.
RunEvalsEnd(e, t, status) ==
    IF e.current_run = None
    THEN [e EXCEPT !.tasks[t] = "crashed"]
    ELSE [e EXCEPT !.runs[e.current_run] = status,
                   !.file = [run_id |-> e.current_run, status |-> status],
                   !.current_run = None,
                   !.tasks[t] = "finished"]

\* The background task starts and the import or check_prerequisites()
\* raises: run_evals from its first line to its last, no await on the way.
RunEvalsPrerequisitesFailed(t) ==
    /\ evals.tasks[t] = "queued"
    /\ evals' = RunEvalsEnd([evals EXCEPT !.current_run = t,
                                          !.runs[t] = "running"], t, "failed")
    /\ UNCHANGED <<store, cache, calls, cacheRet, ingests, nextId, vreq, vres, scan, slice, stale, auth>>

\* dataset.evaluate returned (status "completed") or raised (status
\* "failed"): run_evals from line 60 to its return.
RunEvalsEvaluated(t, status) ==
    /\ evals.tasks[t] = "evaluate"
    /\ evals' = RunEvalsEnd(evals, t, status)
    /\ UNCHANGED <<store, cache, calls, cacheRet, ingests, nextId, vreq, vres, scan, slice, stale, auth>>

\* GET /api/evals/latest
GetEvalsLatest ==
    /\ LET results == GetLatestResults(evals)
       IN  evals' = [evals EXCEPT !.answer =
                IF results = NoFile
                THEN [status_code |-> 200, run_id |-> None, status |-> "none"]
                ELSE [status_code |-> 200, run_id |-> results.run_id,
                      status |-> results.status]]
    /\ UNCHANGED <<store, cache, calls, cacheRet, ingests, nextId, vreq, vres, scan, slice, stale, auth>>

----------------------------------------------------------------------------
(* auth.py and server.py: the auth gate, the magic link, the session.     *)

\* The addresses a form or a token may carry.
Emails == {"ann@x", "Ann@x", "bob@x"}

\* str.lower() on these addresses.
EmailLower(email) == IF email = "Ann@x" THEN "ann@x" ELSE email

\* ALLOWED_EMAILS: the stripped, lowered entries of the environment's list.
ALLOWED_EMAILS == {"ann@x"}

\* The Authorization headers a request may carry: none, the API token as
\* bearer, another token as bearer, the API token without the scheme.
Headers ==
    {[scheme |-> "", token |-> ""],
     [scheme |-> "Bearer ", token |-> "API_TOKEN"],
     [scheme |-> "Bearer ", token |-> "other"],
     [scheme |-> "", token |-> "API_TOKEN"]}

\* auth_header.startswith("Bearer ") and auth_header[7:] == API_TOKEN
BearerOk(auth_header) ==
    auth_header.scheme = "Bearer " /\ auth_header.token = "API_TOKEN"

\* The paths requested: the dashboard, an API route, the health check and
\* the four auth routes.
Paths ==
    {"/", "/documents", "/health",
     "/auth/login", "/auth/send", "/auth/verify", "/auth/logout"}

\* path.startswith("/auth") or path == "/health"
OpenPath(path) ==
    path \in {"/health", "/auth/login", "/auth/send", "/auth/verify", "/auth/logout"}

\* generate_token: the lowered address, signed with SECRET_KEY and stamped.
GenerateToken(email) == [email |-> EmailLower(email), signed |-> TRUE, age |-> "fresh"]

\* Tokens that were not mailed by this process: one with a bad signature,
\* one validly signed for an address that is not on the list.
ForeignTokens ==
    {[email |-> "ann@x", signed |-> FALSE, age |-> "fresh"],
     [email |-> "bob@x", signed |-> TRUE, age |-> "fresh"]}

NoToken == [email |-> "", signed |-> FALSE, age |-> ""]

\* verify_token: loads() raises BadSignature on a bad signature and
\* SignatureExpired beyond max_age, both answered None; then the allow list.
VerifyToken(token) ==
    IF ~token.signed THEN NoneStr
    ELSE IF token.age # "fresh" THEN NoneStr
    ELSE IF EmailLower(token.email) \in ALLOWED_EMAILS THEN token.email
    ELSE NoneStr

\* _require_auth: TRUE when the request is handed on to call_next.
RequireAuth(enabled, path, auth_header, session_email) ==
    \/ ~enabled
    \/ OpenPath(path)
    \/ BearerOk(auth_header)
    \/ session_email # NoneStr

\* The most responses on their way to the browser at a time.
MaxInFlight == 2

NoRequest ==
    [path |-> "", bearer |-> FALSE, email |-> NoneStr, email_after |-> NoneStr,
     token |-> NoToken, outcome |-> "", after_logout |-> FALSE]

\* Auth switched on or off by the environment, the browser without session
\* cookie, no magic link mailed, no response in flight.  `cookie` is the
\* email in the browser's session cookie (NoneStr without one), `last`
\* the request handled last.  The response to an /auth/logout that came
\* with an email in its session is `final` as long as no address was
\* verified after that logout, and `logged_out`
\* tells whether the browser got a final one and no address was verified
\* since.
NoAuth ==
    [enabled |-> TRUE, cookie |-> NoneStr, mail |-> {}, responses |-> {},
     last |-> NoRequest, logged_out |-> FALSE]

\* What SessionMiddleware adds to the response: the session as a new
\* cookie when it is not empty, a cookie deletion when it was emptied,
\* nothing when it was and is empty.
SetCookie(initial_email, session_email) ==
    IF session_email # NoneStr THEN session_email
    ELSE IF initial_email # NoneStr THEN "<clear>"
    ELSE "<none>"

\* One request of the browser, from SessionMiddleware reading the cookie
\* to the response leaving: the gate, then the route's handler.
\* auth_verify puts the verified address in the session, auth_logout
\* clears the session, auth_send mails a link to an allowed address.
AuthRequest(path, auth_header, form_email, token) ==
    /\ Cardinality(auth.responses) < MaxInFlight
    /\ LET initial == auth.cookie
           passes == RequireAuth(auth.enabled, path, auth_header, initial)
           verified == VerifyToken(token)
           session ==
               IF ~passes THEN initial
               ELSE IF path = "/auth/verify" /\ verified # NoneStr THEN verified
               ELSE IF path = "/auth/logout" THEN NoneStr
               ELSE initial
           status_code ==
               IF ~passes THEN 302
               ELSE IF path = "/auth/verify" /\ verified # NoneStr THEN 303
               ELSE IF path \in {"/auth/logout", "/auth/send"} THEN 303
               ELSE 200
       IN  auth' = [auth EXCEPT
              !.mail = IF passes /\ path = "/auth/send"
                          /\ EmailLower(EmailLower(form_email)) \in ALLOWED_EMAILS
                       THEN @ \cup {GenerateToken(EmailLower(form_email))}
                       ELSE @,
              !.responses =
                    (IF passes /\ path = "/auth/verify" /\ verified # NoneStr
                     THEN {[r EXCEPT !.final = FALSE] : r \in @} ELSE @)
                    \cup {[path |-> path, status_code |-> status_code,
                           set_cookie |-> SetCookie(initial, session),
                           final |-> passes /\ path = "/auth/logout"
                                     /\ initial # NoneStr]},
              !.logged_out = IF passes /\ path = "/auth/verify" /\ verified # NoneStr
                             THEN FALSE ELSE @,
              !.last = [path |-> path, bearer |-> BearerOk(auth_header),
                        email |-> initial, email_after |-> session,
                        token |-> IF path = "/auth/verify" THEN token ELSE NoToken,
                        outcome |-> IF passes THEN "handler" ELSE "redirect",
                        after_logout |-> auth.logged_out]]
    /\ UNCHANGED <<store, cache, calls, cacheRet, ingests, nextId, vreq, vres, scan, slice, evals, stale>>

\* A response reaches the browser, which stores or deletes the session
\* cookie as the response says.
AuthReceive(response) ==
    /\ response \in auth.responses
    /\ auth' = [auth EXCEPT
          !.responses = @ \ {response},
          !.cookie = IF response.set_cookie = "<none>" THEN @
                     ELSE IF response.set_cookie = "<clear>" THEN NoneStr
                     ELSE response.set_cookie,
          !.logged_out = IF response.final THEN TRUE ELSE @]
    /\ UNCHANGED <<store, cache, calls, cacheRet, ingests, nextId, vreq, vres, scan, slice, evals, stale>>

\* A mailed link grows older than max_age.
TokenExpires(token) ==
    /\ token \in auth.mail /\ token.age = "fresh"
    /\ auth' = [auth EXCEPT !.mail = (@ \ {token}) \cup {[token EXCEPT !.age = "expired"]}]
    /\ UNCHANGED <<store, cache, calls, cacheRet, ingests, nextId, vreq, vres, scan, slice, evals, stale>>

----------------------------------------------------------------------------
(* The inputs of the callers, the initial state, the next-state relation.  *)

\* The document ids a caller may pass: the stored one and an unknown one.
DocArgs == {"d1", "zz"}

\* A page_end far enough to break the span limit from every page_start.
FarPage == MaxPage + MAX_SPAN + 1

\* The (document_id, page_start, page_end) the callers pass: every range
\* over the pages of "d1" (page_end < page_start included), and one request
\* for each rejection.
Requests ==
    ({"d1"} \X (1..MaxPage) \X (1..MaxPage))
    \cup {<<"zz", 1, 1>>, <<"d1", 1, FarPage>>, <<"d1", 0, 1>>,
          <<"d1", MaxPage, MaxPage + 1>>}

\* The queries the callers of find_pages pass.
Queries == {<<"a">>, <<"B", " ">>}

Init ==
    /\ store = ToolStore
    /\ cache = EmptyCache
    /\ calls = [c \in Callers |-> Idle]
    /\ cacheRet = NoCacheRet
    /\ ingests = [t \in IngestTasks |-> IdleIngest]
    /\ nextId = 0
    /\ vreq = NoReq
    /\ vres = NoMsg
    /\ scan = NoScan
    /\ slice = NoSlice
    /\ evals = NoEvals
    /\ stale = NoHistory
    /\ auth = NoAuth

Next ==
    \/ \E c \in Callers, r \in Requests : ExtractStart(c, r[1], r[2], r[3])
    \/ \E c \in Callers : ExtractDownloaded(c)
    \/ \E c \in Callers, output \in Contents : ExtractPageDone(c, output)
    \/ \E c \in Callers, r \in Requests : FocusStart(c, r[1], r[2], r[3])
    \/ \E c \in Callers : FocusDownloaded(c)
    \/ \E c \in Callers, output \in Contents : FocusDone(c, output)
    \/ \E c \in Callers, d \in DocArgs, q \in Queries : FindStart(c, d, q)
    \/ \E c \in Callers : FindDownloaded(c)
    \/ \E c \in Callers : ListDocuments(c)
    \/ \E c \in Callers, d \in DocArgs : GetDocumentToc(c, d)
    \/ \E c \in Callers : CallRaised(c)
    \/ \E c \in Callers : CallOver(c)
    \/ \E d \in DocArgs \cup {NoneStr} : Invalidate(d)

Spec == Init /\ [][Next]_vars

\* The step that ends an await of call c: its download or its extraction
\* completes, or fails.
Complete(c) ==
    \/ CallRaised(c)
    \/ ExtractDownloaded(c)
    \/ \E output \in Contents : ExtractPageDone(c, output)
    \/ FocusDownloaded(c)
    \/ \E output \in Contents : FocusDone(c, output)
    \/ FindDownloaded(c)

\* Every download and every extraction eventually completes or fails, and
\* an answer reaches its caller.  The completion is strongly fair: it is
\* not enabled in the states where another call's answer is on record.
Fairness ==
    \A c \in Callers : SF_vars(Complete(c)) /\ WF_vars(CallOver(c))

\* The calls whose ending is followed: the whole of "d1", its last page
\* alone, and a rejected request.
LiveRequests == {<<"d1", 1, MaxPage>>, <<"d1", MaxPage, MaxPage>>, <<"zz", 1, 1>>}

\* The three tools that await a download or an extraction, called by both
\* callers on the same document, with cache busts in between.
NextLive ==
    \/ \E c \in Callers, r \in LiveRequests : ExtractStart(c, r[1], r[2], r[3])
    \/ \E c \in Callers : ExtractDownloaded(c)
    \/ \E c \in Callers, output \in Contents : ExtractPageDone(c, output)
    \/ \E c \in Callers : FocusStart(c, "d1", 1, MaxPage)
    \/ \E c \in Callers : FocusDownloaded(c)
    \/ \E c \in Callers, output \in Contents : FocusDone(c, output)
    \/ \E c \in Callers : FindStart(c, "d1", <<"a">>)
    \/ \E c \in Callers : FindDownloaded(c)
    \/ \E c \in Callers : CallRaised(c)
    \/ \E c \in Callers : CallOver(c)
    \/ Invalidate("d1")

SpecLive == Init /\ [][NextLive]_vars /\ Fairness

\* extract_page_content with an extraction step that is a function of
\* (document, page): odd pages have text, even pages come back empty.
Extracted(document_id, page_num) == IF page_num % 2 = 1 THEN "x" ELSE ""

NextDet ==
    \/ \E c \in Callers, r \in Requests : ExtractStart(c, r[1], r[2], r[3])
    \/ \E c \in Callers : ExtractDownloaded(c)
    \/ \E c \in Callers : ExtractPageDone(c, Extracted(calls[c].doc, calls[c].page))
    \/ \E c \in Callers : CallRaised(c)
    \/ \E c \in Callers : CallOver(c)
    \/ \E d \in DocArgs \cup {NoneStr} : Invalidate(d)

SpecDet == Init /\ [][NextDet]_vars

\* The same tools, with the history of invalidated extractions kept.
InitBust ==
    /\ store = ToolStore
    /\ cache = EmptyCache
    /\ calls = [c \in Callers |-> Idle]
    /\ cacheRet = NoCacheRet
    /\ ingests = [t \in IngestTasks |-> IdleIngest]
    /\ nextId = 0
    /\ vreq = NoReq
    /\ vres = NoMsg
    /\ scan = NoScan
    /\ slice = NoSlice
    /\ evals = NoEvals
    /\ stale = {}
    /\ auth = NoAuth

SpecBust == InitBust /\ [][Next]_vars

\* ingest_pdf alone, from an empty store.
InitIngest ==
    /\ store = <<>>
    /\ cache = EmptyCache
    /\ calls = [c \in Callers |-> Idle]
    /\ cacheRet = NoCacheRet
    /\ ingests = [t \in IngestTasks |-> IdleIngest]
    /\ nextId = 0
    /\ vreq = NoReq
    /\ vres = NoMsg
    /\ scan = NoScan
    /\ slice = NoSlice
    /\ evals = NoEvals
    /\ stale = NoHistory
    /\ auth = NoAuth

NextIngest ==
    \/ \E t \in IngestTasks, url \in Urls : IngestStart(t, url)
    \/ \E t \in IngestTasks : IngestDownloaded(t)
    \/ \E t \in IngestTasks, toc \in Tocs : IngestExtracted(t, toc)
    \/ \E t \in IngestTasks : IngestRaised(t)
    \/ \E t \in IngestTasks : IngestOver(t)

SpecIngest == InitIngest /\ [][NextIngest]_vars

\* The document ids the tools are called with while documents are ingested.
StoreDocArgs == {"d1", "d2"}

\* Ingestion and the five retrieval tools side by side on one document
\* store, which starts empty.
NextStore ==
    \/ \E url \in Urls : IngestStart("i1", url)
    \/ IngestDownloaded("i1")
    \/ \E toc \in Tocs : IngestExtracted("i1", toc)
    \/ IngestRaised("i1")
    \/ IngestOver("i1")
    \/ ListDocuments("a")
    \/ \E d \in StoreDocArgs : GetDocumentToc("a", d)
    \/ \E d \in StoreDocArgs : FindStart("a", d, <<"a">>)
    \/ FindDownloaded("a")
    \/ \E d \in StoreDocArgs : ExtractStart("a", d, 1, 1)
    \/ ExtractDownloaded("a")
    \/ \E output \in Contents : ExtractPageDone("a", output)
    \/ \E d \in StoreDocArgs : FocusStart("a", d, 1, 1)
    \/ FocusDownloaded("a")
    \/ \E output \in Contents : FocusDone("a", output)
    \/ CallRaised("a")
    \/ CallOver("a")

SpecStore == InitIngest /\ [][NextStore]_vars

\* The page cache alone, its functions called in any order.
CacheDocs == {"d1", "d2"}

InitCache ==
    /\ store = <<>>
    /\ cache = EmptyCache
    /\ calls = [c \in Callers |-> Idle]
    /\ cacheRet = NoCacheRet
    /\ ingests = [t \in IngestTasks |-> IdleIngest]
    /\ nextId = 0
    /\ vreq = NoReq
    /\ vres = NoMsg
    /\ scan = NoScan
    /\ slice = NoSlice
    /\ evals = NoEvals
    /\ stale = NoHistory
    /\ auth = NoAuth

NextCache ==
    \/ \E d \in CacheDocs, p \in 1..MaxPage : CacheGetOp(d, p)
    \/ \E d \in CacheDocs, p \in 1..MaxPage, content \in Contents : CachePutOp(d, p, content)
    \/ \E d \in CacheDocs \cup {NoneStr} : CacheInvalidateOp(d)
    \/ CacheSizeOp

SpecCache == InitCache /\ [][NextCache]_vars

\* The validation alone, over stores whose document has each kind of
\* total_pages: None, 0 (the PDF at "u0" has no pages), and page counts.
MaxValPage == 16

ValDocs ==
    {Doc("d1", "u0", GetTotalPages(PdfAt("u0")), "toc")}
    \cup {Doc("d1", "u1", total, "toc") : total \in {None, 1, 12, 120}}

ValPages == (-1..MaxValPage) \cup {118, 125}

InitValidate ==
    /\ \E doc \in ValDocs : store = <<doc>>
    /\ cache = EmptyCache
    /\ calls = [c \in Callers |-> Idle]
    /\ cacheRet = NoCacheRet
    /\ ingests = [t \in IngestTasks |-> IdleIngest]
    /\ nextId = 0
    /\ \E d \in DocArgs, ps \in ValPages, pe \in ValPages :
            vreq = [tool |-> "request", doc |-> d, ps |-> ps, pe |-> pe]
    /\ vres = NoMsg
    /\ scan = NoScan
    /\ slice = NoSlice
    /\ evals = NoEvals
    /\ stale = NoHistory
    /\ auth = NoAuth

NextValidate ==
    \/ ValidateExtract
    \/ ValidateFocus

SpecValidate == InitValidate /\ [][NextValidate]_vars

\* extract_page_content by one caller over ranges of the full span, on a
\* document whose total_pages is not known.
LongStore == <<Doc("d1", "u1", None, "toc")>>

LongRequests ==
    {<<"d1", 1, 1 + MAX_SPAN>>, <<"d1", 2, 2 + MAX_SPAN>>, <<"d1", 1, 2 + MAX_SPAN>>}

InitLong ==
    /\ store = LongStore
    /\ cache = EmptyCache
    /\ calls = [c \in Callers |-> Idle]
    /\ cacheRet = NoCacheRet
    /\ ingests = [t \in IngestTasks |-> IdleIngest]
    /\ nextId = 0
    /\ vreq = NoReq
    /\ vres = NoMsg
    /\ scan = NoScan
    /\ slice = NoSlice
    /\ evals = NoEvals
    /\ stale = NoHistory
    /\ auth = NoAuth

NextLong ==
    \/ \E r \in LongRequests : ExtractStart("a", r[1], r[2], r[3])
    \/ ExtractDownloaded("a")
    \/ ExtractPageDone("a", "x")
    \/ CallRaised("a")
    \/ CallOver("a")

SpecLong == InitLong /\ [][NextLong]_vars

\* extract_page_range alone, over PDFs of up to MaxSlicePages pages, each
\* page named by its place in the source, and starts and ends from below
\* the first page to beyond the last.
MaxSlicePages == 3

SlicePdfs == {[i \in 1..n |-> i] : n \in 0..MaxSlicePages}

SliceArgs == (-2)..(MaxSlicePages + 2)

InitSlice ==
    /\ store = <<>>
    /\ cache = EmptyCache
    /\ calls = [c \in Callers |-> Idle]
    /\ cacheRet = NoCacheRet
    /\ ingests = [t \in IngestTasks |-> IdleIngest]
    /\ nextId = 0
    /\ vreq = NoReq
    /\ vres = NoMsg
    /\ scan = NoScan
    /\ \E pdf_bytes \in SlicePdfs, start \in SliceArgs, end \in SliceArgs :
            slice = [NoSlice EXCEPT !.pc = "call", !.pdf = pdf_bytes,
                                    !.start = start, !.end = end]
    /\ evals = NoEvals
    /\ stale = NoHistory
    /\ auth = NoAuth

NextSlice == SliceApply

SpecSlice == InitSlice /\ [][NextSlice]_vars

\* find_pages' scan alone, over PDFs of up to MaxScanPages pages.
MaxScanPages == 2

\* n times the character ch.
Rep(ch, n) == [i \in 1..n |-> ch]

\* The page texts: an empty page, the two pages of "u1", a run of one
\* letter (overlapping matches, more than three of them), a capital sigma
\* between letters, a match with more than SNIPPET_CONTEXT characters on
\* each side, and a match after "I_dot" with more than SNIPPET_CONTEXT
\* characters behind it.
SearchTexts ==
    {<<>>, PageText(1), PageText(2), Rep("a", 5), <<"a", "Sigma", "a">>,
     Rep("b", SNIPPET_CONTEXT + 1) \o <<"a">> \o Rep("b", SNIPPET_CONTEXT + 1),
     <<"I_dot", "a">> \o Rep("b", SNIPPET_CONTEXT + 1)}

SearchPdfs == UNION {[1..n -> SearchTexts] : n \in 0..MaxScanPages}

SearchQueries ==
    {<<>>, <<"a">>, <<"A">>, <<"a", "a">>, <<"A", "a">>, <<"B", " ">>, <<"b", " ">>,
     <<"c">>, <<"I_dot">>, <<"a", "Sigma">>, <<"a", "sigma">>}

InitSearch ==
    /\ store = <<>>
    /\ cache = EmptyCache
    /\ calls = [c \in Callers |-> Idle]
    /\ cacheRet = NoCacheRet
    /\ ingests = [t \in IngestTasks |-> IdleIngest]
    /\ nextId = 0
    /\ vreq = NoReq
    /\ vres = NoMsg
    /\ \E pdf_bytes \in SearchPdfs, query \in SearchQueries :
            scan = [NoScan EXCEPT !.pc = "page", !.pdf = pdf_bytes, !.query = query,
                                  !.page_num = 1]
    /\ slice = NoSlice
    /\ evals = NoEvals
    /\ stale = NoHistory
    /\ auth = NoAuth

NextSearch ==
    \/ ScanPage
    \/ SnippetStep
    \/ ScanAnswer

SpecSearch == InitSearch /\ [][NextSearch]_vars

\* The results file an earlier process may have left behind.
EarlierFiles ==
    {NoFile, [run_id |-> 0, status |-> "completed"], [run_id |-> 0, status |-> "failed"]}

\* The eval endpoints and the background executions of run_evals.
InitEvals ==
    /\ store = ToolStore
    /\ cache = EmptyCache
    /\ calls = [c \in Callers |-> Idle]
    /\ cacheRet = NoCacheRet
    /\ ingests = [t \in IngestTasks |-> IdleIngest]
    /\ nextId = 0
    /\ vreq = NoReq
    /\ vres = NoMsg
    /\ scan = NoScan
    /\ slice = NoSlice
    /\ \E f \in EarlierFiles : evals = [NoEvals EXCEPT !.file = f]
    /\ stale = NoHistory
    /\ auth = NoAuth

NextEvals ==
    \/ RunEvalsEndpoint
    \/ \E t \in EvalRuns : RunEvalsBegin(t)
    \/ \E t \in EvalRuns : RunEvalsPrerequisitesFailed(t)
    \/ \E t \in EvalRuns, status \in {"completed", "failed"} : RunEvalsEvaluated(t, status)
    \/ GetEvalsLatest

SpecEvals == InitEvals /\ [][NextEvals]_vars

\* One browser and the server, with _AUTH_ENABLED either way.
InitAuth ==
    /\ store = ToolStore
    /\ cache = EmptyCache
    /\ calls = [c \in Callers |-> Idle]
    /\ cacheRet = NoCacheRet
    /\ ingests = [t \in IngestTasks |-> IdleIngest]
    /\ nextId = 0
    /\ vreq = NoReq
    /\ vres = NoMsg
    /\ scan = NoScan
    /\ slice = NoSlice
    /\ evals = NoEvals
    /\ stale = NoHistory
    /\ \E enabled \in BOOLEAN : auth = [NoAuth EXCEPT !.enabled = enabled]

NextAuth ==
    \/ \E path \in Paths \ {"/auth/send", "/auth/verify"}, auth_header \in Headers :
            AuthRequest(path, auth_header, "", NoToken)
    \/ \E auth_header \in Headers, form_email \in Emails :
            AuthRequest("/auth/send", auth_header, form_email, NoToken)
    \/ \E auth_header \in Headers, token \in auth.mail \cup ForeignTokens :
            AuthRequest("/auth/verify", auth_header, "", token)
    \/ \E response \in auth.responses : AuthReceive(response)
    \/ \E token \in auth.mail : TokenExpires(token)

SpecAuth == InitAuth /\ [][NextAuth]_vars

----------------------------------------------------------------------------
(* The properties.                                                         *)

\* An extract_page_content call that passed validation and has just returned.
ExtractReturned(c) ==
    /\ calls[c].kind = "extract" /\ calls[c].pc = "returned"
    /\ calls[c].msg = NoMsg

RangeCached(c) ==
    \A p \in calls[c].ps..calls[c].pe : <<calls[c].doc, p>> \in DOMAIN cache

\* C1, as stated: when extract_page_content returns its markdown, the cache
\* holds an entry for every page of the range, whatever is interleaved with
\* the call, invalidate included.
C1_RangeCachedAtReturn ==
    \A c \in Callers : ExtractReturned(c) => RangeCached(c)

\* C1, amended: when extract_page_content returns its markdown and no
\* invalidate(document_id) or invalidate(None) ran while the call was in
\* flight, the cache holds an entry for every page of the range.
C1_RangeCachedUnlessInvalidated ==
    \A c \in Callers : (ExtractReturned(c) /\ ~calls[c].inval) => RangeCached(c)

\* A call over two pages returns, undisturbed, while another call is in flight.
C1_Witness ==
    \E c, o \in Callers :
        /\ ExtractReturned(c) /\ ~calls[c].inval
        /\ calls[c].pe > calls[c].ps /\ Len(calls[c].runs) >= 1
        /\ o # c /\ InFlight(o)

\* In this step call c handed a page to the extraction agent.
RunStarted(c) ==
    /\ calls'[c].kind = "extract" /\ calls'[c].pc = "llm"
    /\ Len(calls'[c].runs) = Len(calls[c].runs) + 1

\* C2: extract_page_content runs the extraction agent only for a page whose
\* key has no cache entry when the loop reaches it, whatever the stored
\* content (the step's own put is for an earlier page).
C2_ExtractsOnlyUncachedPages ==
    [][\A c \in Callers :
            RunStarted(c) => <<calls'[c].doc, calls'[c].page>> \notin DOMAIN cache']_vars

\* C3: no step other than an invalidate lowers size() or removes a key.
C3_MonotonicGrowth ==
    [][\/ \E d \in DocArgs \cup {NoneStr} : Invalidate(d)
       \/ /\ CacheSize(cache') >= CacheSize(cache)
          /\ DOMAIN cache \subseteq DOMAIN cache']_vars

\* A second page has been put beside a cached one by a call that returned.
C3_Witness ==
    /\ CacheSize(cache) >= 2
    /\ \E c \in Callers : ExtractReturned(c) /\ Len(calls[c].runs) >= 1

\* The step is an invalidate that targets key k.
InvalidateHits(k) == \E d \in {k[1], NoneStr} : Invalidate(d)

\* The step is the put of extract_page_content on key k.
PutOn(k) ==
    \E c \in Callers, output \in Contents :
        /\ ExtractPageDone(c, output)
        /\ k = <<calls[c].doc, calls[c].page>>

\* C4, as stated: a cached key keeps answering get with the same content
\* over every step that is not an invalidate targeting it.
C4_GetStableUntilInvalidate ==
    [][\A k \in DOMAIN cache :
            InvalidateHits(k) \/ CacheGet(cache', k[1], k[2]) = cache[k]]_vars

\* C4, amended: a cached key keeps answering get with the same content over
\* every step that is neither an invalidate targeting it nor a later put on
\* the same key.
C4_GetStableUntilInvalidateOrPut ==
    [][\A k \in DOMAIN cache :
            InvalidateHits(k) \/ PutOn(k) \/ CacheGet(cache', k[1], k[2]) = cache[k]]_vars

\* A call was answered from the cache alone, with the content the key holds.
C4_Witness ==
    \E c \in Callers :
        /\ ExtractReturned(c) /\ calls[c].runs = <<>> /\ calls[c].parts # <<>>
        /\ \A i \in 1..Len(calls[c].parts) :
              calls[c].parts[i].text = CacheGet(cache, calls[c].doc, calls[c].parts[i].page)

\* C5: invalidate(doc_id) removes exactly the keys of doc_id, leaves every
\* other entry as it was, and returns how many it removed.
C5_InvalidateScoped ==
    [][\A d \in CacheDocs :
            (cacheRet'.op = "invalidate" /\ cacheRet'.doc = d) =>
                /\ DOMAIN cache' = {k \in DOMAIN cache : k[1] # d}
                /\ \A k \in DOMAIN cache' : cache'[k] = cache[k]
                /\ cacheRet'.ret = Cardinality({k \in DOMAIN cache : k[1] = d})]_vars

\* invalidate("d1") has removed entries and entries of "d2" are still there.
C5_Witness ==
    /\ cacheRet.op = "invalidate" /\ cacheRet.doc = "d1" /\ cacheRet.ret >= 2
    /\ \E k \in DOMAIN cache : k[1] = "d2"

\* C6: invalidate(None) removes every entry, returns the count held before
\* the call, and leaves size() = 0.
C6_InvalidateAll ==
    [][(cacheRet'.op = "invalidate" /\ cacheRet'.doc = NoneStr) =>
            /\ cache' = EmptyCache
            /\ CacheSize(cache') = 0
            /\ cacheRet'.ret = CacheSize(cache)]_vars

\* invalidate(None) has cleared a cache that held entries of both documents.
C6_Witness ==
    /\ cacheRet.op = "invalidate" /\ cacheRet.doc = NoneStr /\ cacheRet.ret >= 3
    /\ CacheSize(cache) = 0

\* The stored document a validated request names.
ReqDoc == StoreGet(store, vreq.doc)

\* C7: for an existing document, extract_page_content rejects a request
\* exactly when the span exceeds 9, or page_start < 1, or total_pages is
\* known and page_end exceeds it.
C7_RejectsExactlyBadRanges ==
    (vreq.tool = "extract" /\ StoreHas(store, vreq.doc)) =>
        ((vres # NoMsg) <=>
            \/ vreq.pe - vreq.ps > 9
            \/ vreq.ps < 1
            \/ (ReqDoc.total_pages # None /\ vreq.pe > ReqDoc.total_pages))

\* The preconditions of a request, in the order of the claim: the document
\* exists, the span is at most 10 pages, page_start >= 1, page_end is within
\* the known total.
Fails(i) ==
    IF i = 1 THEN ~StoreHas(store, vreq.doc)
    ELSE IF i = 2 THEN vreq.pe - vreq.ps > 9
    ELSE IF i = 3 THEN vreq.ps < 1
    ELSE /\ StoreHas(store, vreq.doc)
         /\ ReqDoc.total_pages # None
         /\ vreq.pe > ReqDoc.total_pages

MsgOf(i) ==
    IF i = 1 THEN NotFoundMsg(vreq.doc)
    ELSE IF i = 2 THEN SpanMsg
    ELSE IF i = 3 THEN StartMsg
    ELSE TotalMsg(ReqDoc.total_pages)

FirstFailing == CHOOSE i \in 1..4 : Fails(i) /\ \A j \in 1..(i - 1) : ~Fails(j)

\* C8: a request that violates several preconditions is answered, by either
\* extraction tool, with the message of the first one it violates.
C8_FirstFailingCheckAnswers ==
    (vreq.tool \in {"extract", "focus"} /\ Cardinality({i \in 1..4 : Fails(i)}) >= 2)
        => vres = MsgOf(FirstFailing)

\* (0, 15) on a stored document: too wide and starting below 1, answered
\* with the span message.
C8_Witness ==
    /\ vreq.tool = "extract" /\ StoreHas(store, vreq.doc)
    /\ vreq.ps = 0 /\ vreq.pe = 15
    /\ vres = SpanMsg

IsRejection(msg) ==
    msg.m \in {NotFoundMsg("").m, SpanMsg.m, StartMsg.m, TotalMsg(0).m}

\* C9: a step in which find_pages, extract_page_content or
\* extract_with_focus answers not-found or a validation message returns it
\* with no download started, no extraction run, and the cache and the
\* store as they were.
C9_RejectionHasNoEffect ==
    [][\A c \in Callers :
            ( /\ calls'[c].kind \in {"find", "extract", "focus"}
              /\ calls'[c].pc \in {"returned", "raised"}
              /\ calls[c].pc \notin {"returned", "raised"}
              /\ IsRejection(calls'[c].msg) ) =>
                /\ calls'[c].pc = "returned"
                /\ calls'[c].downloads = 0
                /\ calls'[c].runs = <<>>
                /\ cache' = cache
                /\ store' = store]_vars

\* A request has just been rejected while the cache holds pages and another
\* call is in flight.
C9_Witness ==
    \E c, o \in Callers :
        /\ calls[c].pc = "returned" /\ IsRejection(calls[c].msg)
        /\ calls[c].kind \in {"find", "extract", "focus"}
        /\ cache # EmptyCache
        /\ o # c /\ InFlight(o)

\* C10: the store never holds two documents with the same content_hash.
C10_OneDocumentPerHash ==
    \A i, j \in 1..Len(store) :
        store[i].content_hash = store[j].content_hash => i = j

\* C11: a step in which ingest_pdf finds the downloaded bytes' hash in the
\* store raises DuplicateDocumentError carrying a stored document with that
\* hash, has run no metadata extraction, leaves the store as it was, and is
\* answered by the endpoint with a 409 naming that document's id.
C11_DuplicateIsConflict ==
    [][\A t \in IngestTasks :
            ( /\ ingests[t].pc = "download"
              /\ ingests'[t].pc \notin {"download", "raised"}
              /\ StoreHasHash(store, Sha256(PdfAt(ingests[t].url))) ) =>
                /\ ingests'[t].pc = "duplicate"
                /\ \E i \in 1..Len(store) :
                      /\ store[i].id = ingests'[t].existing
                      /\ store[i].content_hash = Sha256(PdfAt(ingests[t].url))
                /\ ingests'[t].runs = 0
                /\ store' = store
                /\ ingests'[t].response =
                      [status_code |-> 409, id |-> ingests'[t].existing]]_vars

\* The mirror "u1m" was ingested after "u0" and "u1" were stored: the
\* conflict names the document stored for "u1", the second in the store.
C11_Witness ==
    \E t \in IngestTasks :
        /\ ingests[t].pc = "duplicate" /\ ingests[t].url = "u1m"
        /\ Len(store) = 2 /\ store[1].source_url = "u0" /\ store[2].source_url = "u1"
        /\ ingests[t].response = [status_code |-> 409, id |-> store[2].id]

\* Call c has run the extraction agent on page p and holds its answer.
RanPage(c, p) ==
    /\ calls[c].kind = "extract"
    /\ \E i \in 1..Len(calls[c].runs) : calls[c].runs[i] = <<p, p>>
    /\ \E i \in 1..Len(calls[c].parts) : calls[c].parts[i].page = p

\* C12: whenever extract_page_content writes a page it extracted, the
\* other call having missed and written the same key or not, the key holds
\* the content of this latest put, and every other key is as it was.
C12_LastWriterWins ==
    [][\A c \in Callers, output \in Contents :
            ExtractPageDone(c, output) =>
                LET key == <<calls[c].doc, calls[c].page>> IN
                /\ CacheGet(cache', key[1], key[2]) = output
                /\ DOMAIN cache' = DOMAIN cache \cup {key}
                /\ \A k \in DOMAIN cache \ {key} : cache'[k] = cache[k]]_vars

\* Both callers missed page 1, both ran the agent on it and both put, with
\* different answers; the key holds one of the two and neither call was
\* disturbed by an invalidate.
C12_Witness ==
    \E c, o \in Callers, i, j \in 1..MaxPage :
        /\ c # o /\ calls[c].doc = calls[o].doc
        /\ RanPage(c, 1) /\ RanPage(o, 1)
        /\ ~calls[c].inval /\ ~calls[o].inval
        /\ i <= Len(calls[c].parts) /\ j <= Len(calls[o].parts)
        /\ calls[c].parts[i].page = 1 /\ calls[o].parts[j].page = 1
        /\ calls[c].parts[i].text # calls[o].parts[j].text
        /\ CacheGet(cache, calls[c].doc, 1) = calls[o].parts[j].text

\* C13: an accepted extract_page_content call that waits for the agent on
\* page p has finished exactly the pages before p, in ascending order, and
\* has run the agent on ascending pages only; when it returns, its text is
\* one "## Page p" block per page of [page_start, page_end], ascending,
\* with the rule between consecutive blocks.
C13_AscendingOrder ==
    \A c \in Callers :
        ( /\ calls[c].kind = "extract" /\ calls[c].msg = NoMsg
          /\ calls[c].pc \in {"llm", "returned"} ) =>
            LET call == calls[c]
                n == Len(call.parts)
            IN  /\ \A i \in 1..n :
                      /\ call.parts[i].tok = "## Page"
                      /\ call.parts[i].page = call.ps + i - 1
                /\ \A i \in 1..Len(call.runs) :
                      /\ call.runs[i][1] = call.runs[i][2]
                      /\ call.runs[i][1] >= call.ps
                      /\ \A j \in 1..(i - 1) : call.runs[j][1] < call.runs[i][1]
                /\ call.pc = "llm" =>
                      /\ call.page = call.ps + n /\ call.page <= call.pe
                      /\ call.runs[Len(call.runs)] = <<call.page, call.page>>
                /\ call.pc = "returned" =>
                      /\ n = Max(0, call.pe - call.ps + 1)
                      /\ Len(call.out) = Max(0, 2 * n - 1)
                      /\ \A i \in 1..n : call.out[2 * i - 1] = call.parts[i]
                      /\ \A i \in 1..(n - 1) : call.out[2 * i] = Rule

\* A call over pages 1..MaxPage returns: page 1 came from the cache, the
\* last page from the agent, and the text has a rule between the blocks.
C13_Witness ==
    \E c \in Callers :
        /\ ExtractReturned(c) /\ calls[c].ps = 1 /\ calls[c].pe = MaxPage
        /\ calls[c].runs = <<<<MaxPage, MaxPage>>>>
        /\ Len(calls[c].out) = 2 * MaxPage - 1
        /\ calls[c].out[2] = Rule

\* C14: every step of an extract_with_focus call leaves the cache as it
\* was; an accepted call that waits for the agent or has returned has
\* downloaded once and issued one extraction request, for the whole range
\* (page_start, page_end), whatever the cache holds, and its answer is the
\* agent's output and not cached blocks.
C14_FocusUncached ==
    [][\A c \in Callers :
            (calls'[c].kind = "focus" /\ calls'[c] # calls[c]) =>
                /\ cache' = cache
                /\ (calls'[c].msg = NoMsg /\ calls'[c].pc \in {"llm", "returned"}) =>
                      /\ calls'[c].runs = <<<<calls'[c].ps, calls'[c].pe>>>>
                      /\ calls'[c].downloads = 1
                /\ (calls'[c].msg = NoMsg /\ calls'[c].pc = "returned") =>
                      /\ Len(calls'[c].out) = 1
                      /\ calls'[c].out[1].tok = ""]_vars

\* extract_with_focus over the pages 1..MaxPage has returned the agent's
\* answer after one request, every page of the range being cached with
\* another content.
C14_Witness ==
    \E c \in Callers :
        /\ calls[c].kind = "focus" /\ calls[c].pc = "returned" /\ calls[c].msg = NoMsg
        /\ calls[c].ps = 1 /\ calls[c].pe = MaxPage
        /\ calls[c].runs = <<<<1, MaxPage>>>>
        /\ calls[c].out[1].text = ""
        /\ \A p \in 1..MaxPage : CacheGet(cache, calls[c].doc, p) = "x"

\* C15: on every store and every request, the answer of one extraction
\* tool's validation is the answer the other tool's validation gives: the
\* same message, or acceptance by both.
C15_SameValidation ==
    /\ vreq.tool = "extract" =>
            vres = FocusValidation(store, vreq.doc, vreq.ps, vreq.pe)
    /\ vreq.tool = "focus" =>
            vres = ExtractValidation(store, vreq.doc, vreq.ps, vreq.pe)

\* extract_with_focus has rejected (8, 15) on a document of 12 pages with
\* the message extract_page_content gives.
C15_Witness ==
    /\ vreq.tool = "focus" /\ vreq.ps = 8 /\ vreq.pe = 15
    /\ vres = TotalMsg(12)
    /\ vres = ExtractValidation(store, vreq.doc, vreq.ps, vreq.pe)

\* The letters of the alphabet that are each other's upper and lower case.
CasePairs == {{"A", "a"}, {"B", "b"}, {"Sigma", "sigma"}, {"Sigma", "final_sigma"}}

SameLetter(x, y) == x = y \/ {x, y} \in CasePairs

\* The text holds the query at some position, letter by letter, case aside.
ContainsIgnoreCase(text, query) ==
    \E pos \in 0..Len(text) :
        /\ pos + Len(query) <= Len(text)
        /\ \A j \in 1..Len(query) : SameLetter(text[pos + j], query[j])

\* C16: for a non-empty query, the finished scan lists exactly the pages
\* whose text contains the query case-insensitively, in strictly ascending
\* page order (so each once), and the header counts the listed pages.
C16_SearchComplete ==
    (scan.pc = "done" /\ scan.query # <<>>) =>
        LET pages == {p \in 1..Len(scan.pdf) : ContainsIgnoreCase(scan.pdf[p], scan.query)}
            n == Len(scan.results)
        IN  /\ {scan.results[i].page : i \in 1..n} = pages
            /\ \A i, j \in 1..n : i < j => scan.results[i].page < scan.results[j].page
            /\ n = Cardinality(pages)
            /\ n >= 1 => scan.msg = FoundMsg(n)

\* C17: a finished scan without matching page answers with the no-match
\* message, which is neither the not-found message nor a "Found" header;
\* a "Found" header comes with at least one page entry.
C17_NoMatchIsExplicit ==
    scan.pc = "done" =>
        /\ scan.results = <<>> =>
              /\ scan.msg = NoPagesMsg
              /\ scan.msg.m # NotFoundMsg("").m
              /\ scan.msg.m # FoundMsg(0).m
        /\ scan.msg.m = FoundMsg(0).m =>
              /\ Len(scan.results) >= 1
              /\ scan.msg.n = Len(scan.results)

\* "c" was searched in a PDF of MaxScanPages pages with text, none holding it.
C17_Witness ==
    /\ scan.pc = "done" /\ scan.query = <<"c">>
    /\ Len(scan.pdf) = MaxScanPages /\ \A p \in 1..Len(scan.pdf) : scan.pdf[p] # <<>>
    /\ scan.results = <<>> /\ scan.msg = NoPagesMsg

DifferOnlyInCase(q1, q2) ==
    /\ Len(q1) = Len(q2) /\ q1 # q2
    /\ \A i \in 1..Len(q1) : SameLetter(q1[i], q2[i])

\* C18: the finished scan for a query lists the same pages with the same
\* occurrence counts as find_pages' scan of the same PDF for any query that
\* differs from it only in letter case.
C18_CaseInsensitive ==
    scan.pc = "done" =>
        \A q2 \in SearchQueries :
            DifferOnlyInCase(scan.query, q2) =>
                LET other == SearchPages(scan.pdf, q2, 1) IN
                /\ Len(other) = Len(scan.results)
                /\ \A i \in 1..Len(other) :
                      /\ other[i].page = scan.results[i].page
                      /\ other[i].count = scan.results[i].count

\* Every snippet the scan holds: those of the page in hand and those of the
\* entries in results, each with the page's text.
ScanSnippets ==
    {[text |-> scan.pdf[scan.page_num], sn |-> scan.snippets[i]] :
        i \in 1..(IF scan.pc = "snippet" THEN Len(scan.snippets) ELSE 0)}
    \cup UNION {{[text |-> scan.pdf[scan.results[r].page],
                  sn |-> scan.results[r].snippets[i]] :
                    i \in 1..Len(scan.results[r].snippets)} :
                 r \in 1..Len(scan.results)}

\* The position in text of the character that position pos of text.lower()
\* comes from: the m whose prefix text[:m] lowers to pos characters.
TextPositions(text, pos) == {m \in 0..Len(text) : Len(Lower(Slice(text, 0, m))) = pos}

\* The snippet cut at [start, end) covers the match and at most
\* SNIPPET_CONTEXT characters before its start and after its end.
WindowAroundMatch(text, query, sn) ==
    \E m \in TextPositions(text, sn.pos),
       e \in TextPositions(text, sn.pos + Len(Lower(query))) :
        /\ sn.start <= m /\ m - sn.start <= 60
        /\ e <= sn.end /\ sn.end - e <= 60

\* C19: the snippet loop never holds more than 3 snippets, each match it
\* takes lies strictly after the one before (the search position moves on),
\* every page entry has between 1 and 3 snippets, and every snippet covers
\* its match with at most 60 characters before the match start and 60
\* after the match end.
C19_SnippetsCappedAndWindowed ==
    /\ Len(scan.snippets) <= 3
    /\ \A i, j \in 1..Len(scan.snippets) :
          i < j => scan.snippets[i].pos < scan.snippets[j].pos
    /\ \A i \in 1..Len(scan.snippets) : scan.snippets[i].pos < scan.idx
    /\ \A r \in 1..Len(scan.results) :
          Len(scan.results[r].snippets) \in 1..3
    /\ \A x \in ScanSnippets : WindowAroundMatch(x.text, scan.query, x.sn)

\* C20: an extract_page_content call downloads at most once and runs the
\* agent at most once per page, so at most 10 times; the step in which its
\* download or an extraction fails ends the call with the exception, and
\* neither that step nor any later one looks up, extracts or caches a
\* further page for it.
C20_NoRetry ==
    [][\A c \in Callers :
            /\ calls'[c].kind = "extract" =>
                  /\ calls'[c].downloads <= 1
                  /\ \A i, j \in 1..Len(calls'[c].runs) :
                        i < j => calls'[c].runs[i] # calls'[c].runs[j]
                  /\ Len(calls'[c].runs) <= 10
            /\ (calls[c].kind = "extract" /\ InFlight(c) /\ CallRaised(c)) =>
                  /\ calls'[c] = [calls[c] EXCEPT !.pc = "raised"]
                  /\ cache' = cache
            /\ (calls[c].kind = "extract" /\ calls[c].pc = "raised") =>
                  /\ calls'[c] \in {calls[c], Idle}
                  /\ cache' = cache]_vars

\* The tenth extraction of a call over ten pages has failed: the call ends
\* with the exception, nine pages cached by it, ten runs made.
C20_Witness ==
    \E c \in Callers :
        /\ calls[c].kind = "extract" /\ calls[c].pc = "raised"
        /\ Len(calls[c].runs) = 10 /\ Len(calls[c].parts) = 9
        /\ \A p \in calls[c].ps..(calls[c].pe - 1) : <<calls[c].doc, p>> \in DOMAIN cache
        /\ <<calls[c].doc, calls[c].pe>> \notin DOMAIN cache

\* C21: for a PDF of n pages and any start and end, extract_page_range
\* returns the source pages max(start, 1) .. min(end, n), in source order
\* and nothing else (no page when that range is empty).
C21_SliceClamped ==
    slice.pc = "done" =>
        LET n == Len(slice.pdf)
            first == IF slice.start >= 1 THEN slice.start ELSE 1
            last == IF slice.end <= n THEN slice.end ELSE n
        IN  /\ Len(slice.out) = (IF last >= first THEN last - first + 1 ELSE 0)
            /\ \A i \in 1..Len(slice.out) : slice.out[i] = slice.pdf[first + i - 1]

\* A start below 1 and an end beyond the last page of a PDF of
\* MaxSlicePages pages: the whole PDF comes back.
C21_Witness ==
    /\ slice.pc = "done" /\ Len(slice.pdf) = MaxSlicePages
    /\ slice.start < 1 /\ slice.end > MaxSlicePages
    /\ slice.out = slice.pdf

\* The blocks call c took from the cache in this step: those its loop
\* appended, the block of the page it has just extracted itself aside.
HitsOf(c) ==
    LET from == Len(calls[c].parts) + (IF calls[c].pc = "llm" THEN 2 ELSE 1)
    IN  {calls'[c].parts[i].page : i \in from..Len(calls'[c].parts)}

\* C22: an extract_page_content call that started after the latest
\* invalidate of its document (none ran while it was in flight) never
\* delivers, from the cache, a page whose entry was written by an
\* extraction begun before that invalidate.
C22_BustIsImmediate ==
    [][\A c \in Callers :
            ( /\ calls[c].kind = "extract" /\ InFlight(c)
              /\ calls'[c].kind = "extract" /\ ~calls'[c].inval ) =>
                \A p \in HitsOf(c) : <<calls[c].doc, p>> \notin stale]_vars

\* The text of an orchestrator without cache: every page of the range
\* extracted afresh, the blocks joined by the rule.
Reference(document_id, page_start, page_end) ==
    Join(Rule, [i \in 1..Max(0, page_end - page_start + 1) |->
                    Block(page_start + i - 1,
                          Extracted(document_id, page_start + i - 1))])

\* C23: with an extraction step that is a function of (document, page),
\* the text extract_page_content returns is the text of the orchestrator
\* without cache, in every cache state and under every interleaving with
\* other calls and invalidations.
C23_CacheTransparent ==
    \A c \in Callers :
        ExtractReturned(c) =>
            calls[c].out = Reference(calls[c].doc, calls[c].ps, calls[c].pe)

\* A call over the pages 1..MaxPage has returned with page 1 taken from the
\* cache, an invalidate having run during it, the other caller in flight.
C23_Witness ==
    \E c, o \in Callers :
        /\ ExtractReturned(c) /\ calls[c].ps = 1 /\ calls[c].pe = MaxPage
        /\ calls[c].inval
        /\ \A i \in 1..Len(calls[c].runs) : calls[c].runs[i] # <<1, 1>>
        /\ o # c /\ InFlight(o)

\* C24: the cache starts empty, and an entry (d, p) -> c appears or changes
\* only in the step where an extract_page_content call on d gets the
\* agent's answer c for the page p it was waiting on; a failure writes
\* nothing and leaves the entries already written in place.
C24_CacheProvenance ==
    [][/\ \A k \in DOMAIN cache' :
            (k \notin DOMAIN cache \/ cache'[k] # cache[k]) =>
                \E c \in Callers :
                    /\ calls[c].kind = "extract" /\ calls[c].pc = "llm"
                    /\ k = <<calls[c].doc, calls[c].page>>
                    /\ calls[c].runs[Len(calls[c].runs)] = <<k[2], k[2]>>
                    /\ ExtractPageDone(c, cache'[k])
       /\ \A c \in Callers :
            (InFlight(c) /\ calls'[c].pc = "raised") => cache' = cache]_vars

\* A call over two pages has failed on its second page: the first page,
\* which it extracted, is cached with the agent's answer, the second is not.
C24_Witness ==
    \E c \in Callers :
        /\ calls[c].kind = "extract" /\ calls[c].pc = "raised"
        /\ calls[c].runs = <<<<calls[c].ps, calls[c].ps>>, <<calls[c].page, calls[c].page>>>>
        /\ CacheGet(cache, calls[c].doc, calls[c].ps) = calls[c].parts[1].text
        /\ <<calls[c].doc, calls[c].page>> \notin DOMAIN cache

\* The pages extract_with_focus hands to the agent for call c.
FocusPages(c) ==
    ExtractPageRange(PdfAt(StoreGet(store, calls[c].doc).source_url),
                     calls[c].ps, calls[c].pe)

\* C25: a request that extract_page_content or extract_with_focus has
\* accepted has 1 <= page_start <= page_end and page_end - page_start <= 9;
\* an accepted extract_page_content call returns page_end - page_start + 1
\* blocks, between 1 and 10, and an accepted extract_with_focus call hands
\* at least one page to the agent.
C25_AcceptedRangeValid ==
    \A c \in Callers :
        ( /\ calls[c].kind \in {"extract", "focus"} /\ calls[c].msg = NoMsg
          /\ calls[c].pc \in {"download", "llm", "returned"} ) =>
            /\ 1 <= calls[c].ps /\ calls[c].ps <= calls[c].pe
            /\ calls[c].pe - calls[c].ps <= 9
            /\ ExtractReturned(c) =>
                  /\ Len(calls[c].parts) = calls[c].pe - calls[c].ps + 1
                  /\ Len(calls[c].parts) \in 1..10
            /\ (calls[c].kind = "focus" /\ calls[c].pc \in {"llm", "returned"}) =>
                  Len(FocusPages(c)) >= 1

\* C26: under the fairness of SpecLive, every extract_page_content,
\* extract_with_focus and find_pages call in flight eventually returns or
\* fails, whatever the other caller does on the same keys.
C26_EveryCallEnds ==
    \A c \in Callers :
        (calls[c].kind \in {"extract", "focus", "find"} /\ calls[c].pc \in {"download", "llm"})
            ~> (calls[c].pc \in {"returned", "raised"})

\* Both callers wait for the agent's answer on the same page of the same
\* document.
C26_Witness ==
    \A c \in Callers :
        /\ calls[c].kind = "extract" /\ calls[c].pc = "llm"
        /\ calls[c].doc = "d1" /\ calls[c].page = 1

\* C27: no step of a retrieval tool changes the document store; a step that
\* changes it adds one record behind the others, every record already
\* stored keeps its fields and its position, and every stored id still
\* gets the record it got before.
C27_WriteOnce ==
    [][/\ calls' # calls => store' = store
       /\ store' # store => Len(store') = Len(store) + 1
       /\ Len(store') >= Len(store)
       /\ \A i \in 1..Len(store) :
              /\ store'[i] = store[i]
              /\ StoreHas(store', store[i].id)
              /\ StoreGet(store', store[i].id) = StoreGet(store, store[i].id)]_vars

\* A second document is stored and extract_page_content has answered with
\* a page of the first one.
C27_Witness ==
    /\ Len(store) >= 2
    /\ calls["a"].kind = "extract" /\ calls["a"].pc = "returned"
    /\ calls["a"].doc = store[1].id /\ calls["a"].parts # <<>>

\* C28: every page entry of find_pages reports as its count the number of
\* non-overlapping matches of the lowered query in the lowered page text,
\* and shows min(3, count) snippets.
C28_SnippetsAgreeWithCount ==
    \A r \in 1..Len(scan.results) :
        LET entry == scan.results[r]
            text_lower == Lower(scan.pdf[entry.page])
        IN  /\ entry.count = StrCount(text_lower, Lower(scan.query))
            /\ Len(entry.snippets) = Min(MAX_SNIPPETS, entry.count)

\* C29: whatever the sequence of POST /api/evals/run requests, no two
\* executions of run_evals are in progress at the same time.
C29_OneRunAtATime ==
    Cardinality({t \in EvalRuns : evals.tasks[t] = "evaluate"}) <= 1

\* C30: an execution of run_evals ends with its own run completed or
\* failed and never with an exception; the results file never has the
\* status "running"; the step that ends an execution leaves _current_run
\* None; and get_latest_results reports a run in progress while an
\* execution is in progress and the results file otherwise.
C30_RunLifecycle ==
    [][/\ \A t \in EvalRuns :
            /\ evals'.tasks[t] # "crashed"
            /\ evals'.tasks[t] = "finished" => evals'.runs[t] \in {"completed", "failed"}
            /\ (evals.tasks[t] # "finished" /\ evals'.tasks[t] = "finished") =>
                    evals'.current_run = None
       /\ evals'.file.status # "running"
       /\ LET running == {t \in EvalRuns : evals'.tasks[t] = "evaluate"}
              latest == GetLatestResults(evals')
          IN  IF running # {}
              THEN latest.status = "running" /\ latest.run_id \in running
              ELSE latest = evals'.file]_vars

\* C31: with authentication enabled, (1) a request to a path other than
\* /health and the /auth paths reaches its handler only with the API
\* bearer token or an email in its session; (2) a request leaves its
\* session with an email it did not come with only when it is /auth/verify
\* with a validly signed, unexpired token of an allow-listed address; and
\* (3) once the browser has the answer to its /auth/logout, its requests
\* to such a path without the bearer token are redirected to the login
\* page until an address is verified again.
C31_AuthGate ==
    auth.enabled =>
        /\ (auth.last.outcome = "handler" /\ ~OpenPath(auth.last.path)) =>
                (auth.last.bearer \/ auth.last.email # NoneStr)
        /\ (auth.last.email_after \notin {NoneStr, auth.last.email}) =>
                /\ auth.last.path = "/auth/verify"
                /\ auth.last.token.signed /\ auth.last.token.age = "fresh"
                /\ EmailLower(auth.last.token.email) \in ALLOWED_EMAILS
        /\ (auth.last.after_logout /\ auth.last.path # "" /\ ~OpenPath(auth.last.path)
              /\ ~auth.last.bearer) =>
                auth.last.outcome = "redirect"

====
